---------------------------- MODULE Spec2Model ----------------------------
(***************************************************************************)
(* Message Bar v2: the game engine (Game.js), its customers and bottles   *)
(* (Customer.js / Bottle.js), driven by animation-frame ticks, pointer     *)
(* clicks, the React controls, and the two asynchronous collaborators      *)
(* (message poll, message delivery).                                       *)
(* Gemini bot: the session manager (sessionManager.js) and the webhook     *)
(* handler of the bot server, driven by incoming WhatsApp messages, the    *)
(* model's replies, the admin endpoints and the cleanup timer.             *)
(*                                                                         *)
(* Numbers.  Times are integer milliseconds.  A customer's patience and   *)
(* its x are the IEEE 754 doubles of the source, computed with their       *)
(* roundings (frame lengths such as 1600 ms make every decay inexact, the  *)
(* percentage patience / maxPatience * 100 is inexact for most values,     *)
(* and the walkSpeed 1.8 makes a step inexact unless the frame is a        *)
(* multiple of 5 ms).  The other fractional quantities are kept as scaled  *)
(* integers:                                                               *)
(*   fillLevel, progress     in units of 1/BOTTLE_COOLDOWN                 *)
(*   difficulty              as difficulty2 = 2 * difficulty               *)
(***************************************************************************)
EXTENDS Integers, Sequences, FiniteSets, TLC

VARIABLES
  now,                 \* the last reading of Date.now(), ms since construction
  lastTime,            \* Game.lastTime: the timestamp of the last frame, ms
  state,               \* Game.state: "menu" | "playing" | "paused" | "gameover"
  score, customersServed, customersLost, comboCount, maxCombo,
  difficulty2,         \* 2 * Game.difficulty
  lastSpawnTime, lastApiPoll, comboTimer,
  customers,           \* Game.customers: sequence of Customer records
  customerSlots,       \* Game.customerSlots: slot index -> customer id or NULL
  bottles,             \* Game.bottles: bottle index -> Bottle record
  selectedBottleIndex, \* Game.selectedBottleIndex: bottle index or NULL
  demoMode,            \* Game.demoMode
  pendingRealMessages, \* Game.pendingRealMessages: sequence of phones
  customerIdCounter,   \* Customer.js module-level id counter
  polls,               \* pollIncomingMessages calls suspended at their await
  serves,              \* serveCustomer calls suspended at their await
  ticks,               \* number of frames so far (bounds the exploration)
  justStarted,         \* startGame has just returned
  hist,                \* per customer id: what has happened to it so far
  botNow,              \* Date.now() of the bot process, ms
  chatDb,              \* table chat_sessions: sequence of rows, id = index
  activeSessions,      \* SessionManager.activeSessions: phone -> session or NULL
  welcomes,            \* webhook handlers suspended at await sendWhatsAppMessage
                       \* of the welcome message
  handlers,            \* webhook handlers suspended at await sendMessage
  botTicks             \* number of clock advances so far (bounds the exploration)

botVars == <<botNow, chatDb, activeSessions, welcomes, handlers, botTicks>>

gameVars == <<now, lastTime, state, score, customersServed, customersLost, comboCount,
          maxCombo, difficulty2, lastSpawnTime, lastApiPoll, comboTimer,
          customers, customerSlots, bottles, selectedBottleIndex, demoMode,
          pendingRealMessages, customerIdCounter, polls, serves, ticks,
          justStarted, hist>>

vars == <<gameVars, botVars>>

---------------------------------------------------------------------------
(* Bounds of the exploration *)

MaxTicks == 3

\* frame deltas: half a cooldown, and a spawn interval
Deltas == {1500, 6000}
\* the bottles the player clicks: two templates and the locked one
ClickedBottles == {0, 1, 4}
\* the customer types Math.random() picks (indices into CUSTOMER_TYPES)
SpawnTypes == {5}
\* the chats the message source reports (a phone is <<"wa", n>>)
Chats == {1, 2}

---------------------------------------------------------------------------
(* constants.js *)

MAX_CUSTOMERS == 6
MAX_LOST == 5
BASE_SPAWN_INTERVAL == 6000
MIN_SPAWN_INTERVAL == 2500
PATIENCE_DECAY_RATE_x2 == 3      \* PATIENCE_DECAY_RATE = 1.5 (% per second)
BOTTLE_COOLDOWN == 3000
COMBO_TIMEOUT == 3000
BASE_SCORE == 100
PATIENCE_BONUS_MULTIPLIER == 1
COMBO_BONUS == 25
apiPollInterval == 3000

NULL == 0 - 1

\* CUSTOMER_TYPES: patience and walkSpeed (in tenths) by type index
CUSTOMER_TYPES ==
  [i \in 0..5 |->
     CASE i = 0 -> [patience |-> 100, walkSpeed10 |-> 20]
       [] i = 1 -> [patience |-> 80,  walkSpeed10 |-> 25]
       [] i = 2 -> [patience |-> 120, walkSpeed10 |-> 18]
       [] i = 3 -> [patience |-> 70,  walkSpeed10 |-> 30]
       [] i = 4 -> [patience |-> 110, walkSpeed10 |-> 15]
       [] i = 5 -> [patience |-> 60,  walkSpeed10 |-> 35]]

\* BOTTLE_TYPES: four templates and the locked "ai" one
BOTTLE_TYPES ==
  [i \in 0..4 |-> [locked |-> (i = 4)]]

BottleIndices == DOMAIN BOTTLE_TYPES
SlotIndices == 0..(MAX_CUSTOMERS - 1)

\* POSITIONS
CUSTOMER_SPAWN_X == 1350
CUSTOMER_EXIT_X == 0 - 150
CUSTOMER_SLOTS ==
  [i \in SlotIndices |-> 200 + 150 * i]

---------------------------------------------------------------------------
(* The Numbers of the source: IEEE 754 doubles, round to nearest even *)

\* A double is [neg, m, e]: its value is (-1)^neg * M * 2^e, where
\* M = m[1] * 2^36 + m[2] * 2^18 + m[3].  Each double is written in one
\* way: a multiple of 1/32 of magnitude below 4096 with e = -5 (so that M
\* counts the 32nds, M < 2^17), every other double with its mantissa of 53
\* bits (2^52 <= M < 2^53).  Integers before rounding are held in four
\* limbs of 18 bits, most significant first.
Limb == 262144

Zero == [neg |-> FALSE, m |-> <<0, 0, 0>>, e |-> 0 - 5]

\* the number of bits of x, 0 <= x < Limb
BitLen(x) ==
  IF x < 512
  THEN IF x < 16
       THEN IF x < 4 THEN (IF x < 2 THEN x ELSE 2)
            ELSE (IF x < 8 THEN 3 ELSE 4)
       ELSE IF x < 64 THEN (IF x < 32 THEN 5 ELSE 6)
            ELSE IF x < 128 THEN 7 ELSE (IF x < 256 THEN 8 ELSE 9)
  ELSE IF x < 8192
       THEN IF x < 2048 THEN (IF x < 1024 THEN 10 ELSE 11)
            ELSE (IF x < 4096 THEN 12 ELSE 13)
       ELSE IF x < 32768 THEN (IF x < 16384 THEN 14 ELSE 15)
            ELSE IF x < 65536 THEN 16 ELSE (IF x < 131072 THEN 17 ELSE 18)

\* the number of bits of the four-limb integer n
Len4(n) ==
  IF n[1] > 0 THEN 54 + BitLen(n[1])
  ELSE IF n[2] > 0 THEN 36 + BitLen(n[2])
  ELSE IF n[3] > 0 THEN 18 + BitLen(n[3])
  ELSE BitLen(n[4])

\* n shifted right and left by r bits (bits shifted out are dropped)
ShrBits(a, b, c, d, s) ==
  LET q == 2 ^ s
      p == 2 ^ (18 - s)
  IN  <<a \div q, (b \div q) + (a % q) * p, (c \div q) + (b % q) * p,
        (d \div q) + (c % q) * p>>

Shr(n, r) ==
  LET k == r \div 18
      s == r % 18
  IN  IF k = 0 THEN ShrBits(n[1], n[2], n[3], n[4], s)
      ELSE IF k = 1 THEN ShrBits(0, n[1], n[2], n[3], s)
      ELSE IF k = 2 THEN ShrBits(0, 0, n[1], n[2], s)
      ELSE IF k = 3 THEN ShrBits(0, 0, 0, n[1], s)
      ELSE <<0, 0, 0, 0>>

ShlBits(a, b, c, d, s) ==
  LET p == 2 ^ s
      q == 2 ^ (18 - s)
  IN  <<(a % q) * p + (b \div q), (b % q) * p + (c \div q),
        (c % q) * p + (d \div q), (d % q) * p>>

Shl(n, r) ==
  LET k == r \div 18
      s == r % 18
  IN  IF k = 0 THEN ShlBits(n[1], n[2], n[3], n[4], s)
      ELSE IF k = 1 THEN ShlBits(n[2], n[3], n[4], 0, s)
      ELSE IF k = 2 THEN ShlBits(n[3], n[4], 0, 0, s)
      ELSE IF k = 3 THEN ShlBits(n[4], 0, 0, 0, s)
      ELSE <<0, 0, 0, 0>>

\* x < y for four-limb integers
Less4(x, y) ==
  IF x[1] # y[1] THEN x[1] < y[1]
  ELSE IF x[2] # y[2] THEN x[2] < y[2]
  ELSE IF x[3] # y[3] THEN x[3] < y[3]
  ELSE x[4] < y[4]

\* x - y for four-limb integers x >= y
Sub4(x, y) ==
  LET d4 == x[4] - y[4]
      b4 == IF d4 < 0 THEN 1 ELSE 0
      d3 == x[3] - y[3] - b4
      b3 == IF d3 < 0 THEN 1 ELSE 0
      d2 == x[2] - y[2] - b3
      b2 == IF d2 < 0 THEN 1 ELSE 0
      d1 == x[1] - y[1] - b2
  IN  <<d1, d2 + b2 * Limb, d3 + b3 * Limb, d4 + b4 * Limb>>

\* n + 1
Add1(n) ==
  IF n[4] + 1 < Limb THEN <<n[1], n[2], n[3], n[4] + 1>>
  ELSE IF n[3] + 1 < Limb THEN <<n[1], n[2], n[3] + 1, 0>>
  ELSE IF n[2] + 1 < Limb THEN <<n[1], n[2] + 1, 0, 0>>
  ELSE <<n[1] + 1, 0, 0, 0>>

\* n * k for a small integer k, 0 <= k < 8192
Mul4(n, k) ==
  LET p4 == n[4] * k
      p3 == n[3] * k + (p4 \div Limb)
      p2 == n[2] * k + (p3 \div Limb)
      p1 == n[1] * k + (p2 \div Limb)
  IN  <<p1, p2 % Limb, p3 % Limb, p4 % Limb>>

\* quotient and remainder of n by a small integer d, 0 < d < 8192
Div4(n, d) ==
  LET r1 == n[1] % d
      t2 == r1 * Limb + n[2]
      t3 == (t2 % d) * Limb + n[3]
      t4 == (t3 % d) * Limb + n[4]
  IN  [q |-> <<n[1] \div d, t2 \div d, t3 \div d, t4 \div d>>,
       rem |-> t4 % d]

\* the mantissa of x in four limbs
Mant4(x) == <<0, x.m[1], x.m[2], x.m[3]>>

\* a nonzero double with its mantissa of 53 bits, whichever way it is written
Norm(x) ==
  LET s == 53 - Len4(Mant4(x))
      n == Shl(Mant4(x), s)
  IN  [neg |-> x.neg, m |-> <<n[2], n[3], n[4]>>, e |-> x.e - s]

\* the writing of the double (-1)^neg * k * 2^e, for a four-limb k that is
\* 0, or has 53 bits, or is 2^53
Pack(neg, k, e) ==
  IF k = <<0, 0, 0, 0>> THEN Zero
  ELSE IF k[3] = 0 /\ k[4] = 0 /\ e >= 0 - 58 /\ e <= 0 - 41
          /\ k[2] % (2 ^ (0 - 41 - e)) = 0
          /\ k[2] \div (2 ^ (0 - 41 - e)) < 131072
  THEN [neg |-> neg, m |-> <<0, 0, k[2] \div (2 ^ (0 - 41 - e))>>,
        e |-> 0 - 5]
  ELSE IF k[2] = 131072
  THEN [neg |-> neg, m |-> <<65536, 0, 0>>, e |-> e + 1]
  ELSE [neg |-> neg, m |-> <<k[2], k[3], k[4]>>, e |-> e]

\* kept, or kept + 1: kept + rest / (2 * half) rounded to the nearest
\* integer, ties to even (a sticky rest is above what it shows)
RoundUp(kept, rest, half, sticky) ==
  IF Less4(half, rest) \/ (rest = half /\ (sticky \/ kept[4] % 2 = 1))
  THEN Add1(kept)
  ELSE kept

\* Round for an n of r + 53 bits
RoundTo(n, sticky, e, neg, r) ==
  IF r <= 0 THEN Pack(neg, Shl(n, 0 - r), e + r)
  ELSE Pack(neg,
            RoundUp(Shr(n, r), Sub4(n, Shl(Shr(n, r), r)),
                    Shl(<<0, 0, 0, 1>>, r - 1), sticky),
            e + r)

\* the double nearest to (-1)^neg * (n + f) * 2^e, ties to even, where
\* 0 < f < 1 when sticky and f = 0 otherwise; when sticky, n has more than
\* 53 bits
Round(n, sticky, e, neg) == RoundTo(n, sticky, e, neg, Len4(n) - 53)

\* NoGrid, or the number of 32nds of a double x that is a multiple of 1/32
\* with 0 <= x < 4096.  Sums, differences and products of such doubles are
\* exact.
NoGrid == 0 - 1

Grid(x) == IF x.e = 0 - 5 /\ x.m[1] = 0 /\ ~x.neg THEN x.m[3] ELSE NoGrid

\* the double of i / 32, 0 <= i < 2^17
FromGrid(i) == [neg |-> FALSE, m |-> <<0, 0, i>>, e |-> 0 - 5]

\* the double of an integer n, 0 <= n < 2^31
FromInt(n) ==
  IF n < 4096 THEN FromGrid(32 * n)
  ELSE Round(<<0, 0, n \div Limb, n % Limb>>, FALSE, 0, FALSE)

\* x * k * 2^s in doubles, for an integer k, 0 < k < 8192 (the power of
\* two is exact)
DMul(x, k, s) == Round(Mul4(Mant4(x), k), FALSE, x.e + s, x.neg)

\* x / d in doubles, for an integer d, 0 < d < 8192
DDiv(x, d) ==
  LET s == 71 - Len4(Mant4(x))
      qr == Div4(Shl(Mant4(x), s), d)
  IN  Round(qr.q, qr.rem # 0, x.e - s, x.neg)

\* |x| < |y|, both given with their mantissa of 53 bits, or 0
MagLess(x, y) ==
  IF y.m = Zero.m THEN FALSE
  ELSE IF x.m = Zero.m THEN TRUE
  ELSE x.e < y.e \/ (x.e = y.e /\ Less4(Mant4(x), Mant4(y)))

\* x < y
DLess(x, y) ==
  IF x.neg # y.neg THEN x.neg
  ELSE IF x.e = y.e
  THEN IF x.neg THEN Less4(Mant4(y), Mant4(x)) ELSE Less4(Mant4(x), Mant4(y))
  ELSE IF x.neg THEN MagLess(Norm(y), Norm(x))
  ELSE MagLess(Norm(x), Norm(y))

\* x - y in doubles, for x > 0 and y > 0 given with their mantissa of 53
\* bits: the smaller is subtracted from the larger, which is moved left by
\* up to 19 bits to meet it
SubMag(x, y) ==
  LET lt == MagLess(x, y)
      hi == IF lt THEN y ELSE x
      lo == IF lt THEN x ELSE y
      s == hi.e - lo.e
      a == IF s <= 19 THEN s ELSE 19
      lo1 == Shr(Mant4(lo), s - a)
      sticky == Shl(lo1, s - a) # Mant4(lo)
      n0 == Sub4(Shl(Mant4(hi), a), lo1)
  IN  Round(IF sticky THEN Sub4(n0, <<0, 0, 0, 1>>) ELSE n0, sticky,
            hi.e - a, lt)

\* x - y in doubles, for x >= 0 and y >= 0
DSub(x, y) ==
  IF y.m = Zero.m THEN x
  ELSE IF x.m = Zero.m THEN [y EXCEPT !.neg = TRUE]
  ELSE SubMag(Norm(x), Norm(y))

\* x + y for four-limb integers
Add4(x, y) ==
  LET s4 == x[4] + y[4]
      s3 == x[3] + y[3] + (s4 \div Limb)
      s2 == x[2] + y[2] + (s3 \div Limb)
      s1 == x[1] + y[1] + (s2 \div Limb)
  IN  <<s1, s2 % Limb, s3 % Limb, s4 % Limb>>

\* x * k * 2^s in doubles, for an integer k, 0 <= k < 2^19
DTimes(x, k, s) ==
  Round(Add4(Shl(Mul4(Mant4(x), k \div 8192), 13),
             Mul4(Mant4(x), k % 8192)),
        FALSE, x.e + s, x.neg)

\* hi + lo in doubles, where lo1 is lo's mantissa moved right to meet
\* hi's, moved left by a bits, sticky tells that bits of lo were dropped,
\* and sub that the signs differ
SumAt(hi, a, lo1, sticky, sub) ==
  Round(IF sub
        THEN Sub4(Sub4(Shl(Mant4(hi), a), lo1),
                  <<0, 0, 0, IF sticky THEN 1 ELSE 0>>)
        ELSE Add4(Shl(Mant4(hi), a), lo1),
        sticky, hi.e - a, hi.neg)

\* hi + lo in doubles, for |hi| >= |lo| > 0 given with their mantissa of
\* 53 bits: hi is moved left by a bits, up to 18, to meet lo
SumBy(hi, lo, a) ==
  SumAt(hi, a, Shr(Mant4(lo), hi.e - lo.e - a),
        Shl(Shr(Mant4(lo), hi.e - lo.e - a), hi.e - lo.e - a) # Mant4(lo),
        hi.neg # lo.neg)

\* hi + lo in doubles, for |hi| >= |lo| > 0 given with their mantissa of
\* 53 bits
SumOf(hi, lo) ==
  SumBy(hi, lo, IF hi.e - lo.e <= 18 THEN hi.e - lo.e ELSE 18)

\* x + y in doubles
DAdd(x, y) ==
  IF y.m = Zero.m THEN x
  ELSE IF x.m = Zero.m THEN y
  ELSE IF MagLess(Norm(x), Norm(y)) THEN SumOf(Norm(y), Norm(x))
  ELSE SumOf(Norm(x), Norm(y))

\* -x
DNeg(x) == IF x.m = Zero.m THEN x ELSE [x EXCEPT !.neg = ~x.neg]

\* x is a multiple of 1/32 of magnitude below 2^25, in either writing.
\* Sums and differences of such doubles are exact.
IsGrid32(x) ==
  IF x.e = 0 - 5 THEN x.m[1] = 0 /\ x.m[2] = 0
  ELSE /\ x.e >= 0 - 57
       /\ x.e <= 0 - 28
       /\ Shl(Shr(Mant4(x), 0 - 5 - x.e), 0 - 5 - x.e) = Mant4(x)

\* the number of 32nds of such an x, with its sign
Grid32(x) ==
  IF x.e = 0 - 5 THEN (IF x.neg THEN 0 - x.m[3] ELSE x.m[3])
  ELSE LET n == Shr(Mant4(x), 0 - 5 - x.e)
       IN  IF x.neg THEN 0 - (n[3] * Limb + n[4]) ELSE n[3] * Limb + n[4]

\* the double of i / 32, -2^31 < i < 2^31
FromGrid32(i) ==
  LET a == IF i < 0 THEN 0 - i ELSE i
  IN  IF a < 131072 THEN [neg |-> i < 0, m |-> <<0, 0, a>>, e |-> 0 - 5]
      ELSE Norm([neg |-> i < 0, m |-> <<0, a \div Limb, a % Limb>>,
                 e |-> 0 - 5])

\* Math.max(0, x)
DMax0(x) == IF x.neg THEN Zero ELSE x

\* Math.floor(x) for a double x, 0 <= x < 2^31
DFloor(x) ==
  LET n == Shr(Mant4(x), 0 - x.e)
  IN  n[3] * Limb + n[4]

---------------------------------------------------------------------------
(* The clock *)

\* Every call of Date.now() is a reading of its own.  An operation is given
\* the readings it takes, in the order in which it takes them: either by
\* name (t, t1, t2) or as a sequence ts whose head is the next reading; an
\* operation that others call on hands back the readings it has left.
\* n readings of a clock that shows t for the first k and t + d afterwards:
Readings(t, d, k, n) == [i \in 1..n |-> IF i <= k THEN t ELSE t + d]

\* the readings ts can follow a reading of t: the clock does not run back
Monotone(ts, t) ==
  /\ ts[1] >= t
  /\ \A i \in 1..(Len(ts) - 1) : ts[i] <= ts[i + 1]

\* how often the clock has moved over the readings ts that follow t
Moves(ts, t) ==
  Cardinality({i \in DOMAIN ts : ts[i] # (IF i = 1 THEN t ELSE ts[i - 1])})

---------------------------------------------------------------------------
(* Bottle.js *)

\* Bottle constructor
NewBottle(index) ==
  [locked |-> BOTTLE_TYPES[index].locked,
   state |-> IF BOTTLE_TYPES[index].locked THEN "empty" ELSE "idle",
   cooldownEnd |-> 0,
   fillLevel |-> IF BOTTLE_TYPES[index].locked THEN 0 ELSE BOTTLE_COOLDOWN]

\* Bottle.isOnCooldown, which reads the clock once
isOnCooldown(b, t) == t < b.cooldownEnd

\* Bottle.getCooldownProgress, in 1/BOTTLE_COOLDOWN: isOnCooldown() reads
\* t1 and, on cooldown, remaining is taken from a second reading t2
getCooldownProgress(b, t1, t2) ==
  IF ~isOnCooldown(b, t1) THEN BOTTLE_COOLDOWN
  ELSE BOTTLE_COOLDOWN - (b.cooldownEnd - t2)

\* Bottle.use: the return value and the bottle afterwards.  isOnCooldown()
\* reads t1 and cooldownEnd is set from a second reading t2
use(b, t1, t2) ==
  IF b.locked \/ isOnCooldown(b, t1)
  THEN [ok |-> FALSE, bottle |-> b]
  ELSE [ok |-> TRUE,
        bottle |-> [b EXCEPT !.state = "pouring",
                             !.fillLevel = 0,
                             !.cooldownEnd = t2 + BOTTLE_COOLDOWN]]

Max(a, b) == IF a >= b THEN a ELSE b
Min(a, b) == IF a <= b THEN a ELSE b

\* Bottle.update(deltaTime) (the state transitions).  An empty bottle
\* reads the clock once, t1.  A refilling one reads t1 and, on cooldown,
\* t2 in getCooldownProgress(), and then reads again in isOnCooldown(): t3
\* (after a single reading in getCooldownProgress() the cooldown is over
\* at every later reading as well)
BottleUpdate(b, deltaTime, t1, t2, t3) ==
  IF b.state = "pouring" THEN
    LET fill == Max(0, b.fillLevel - 10 * deltaTime)   \* deltaTime / 300
    IN  [b EXCEPT !.fillLevel = fill,
                  !.state = IF fill <= 0 THEN "empty" ELSE "pouring"]
  ELSE IF b.state = "empty" /\ isOnCooldown(b, t1) THEN
    [b EXCEPT !.state = "refilling"]
  ELSE IF b.state = "refilling" THEN
    IF ~isOnCooldown(b, t3)
    THEN [b EXCEPT !.state = "idle", !.fillLevel = BOTTLE_COOLDOWN]
    ELSE [b EXCEPT !.fillLevel = getCooldownProgress(b, t1, t2)]
  ELSE b

---------------------------------------------------------------------------
(* Customer.js *)

WaitingStates == {"idle", "impatient", "angry"}

\* Customer constructor followed by assignSlot(slotIndex): spawnCustomer is
\* the only place customers are made, and it assigns the slot at once.
\* options.phone || `demo_${id}`: a synthetic customer's phone is made of
\* its id; a real one's is the chat's number.  Both are pairs here.
NewCustomer(id, typeIndex, phone, isReal, slotIndex) ==
  [id |-> id,
   typeIndex |-> typeIndex,
   phone |-> IF isReal THEN phone ELSE <<"demo", id>>,
   isReal |-> isReal,
   x |-> FromInt(CUSTOMER_SPAWN_X),
   targetX |-> FromInt(CUSTOMER_SLOTS[slotIndex]),
   slotIndex |-> slotIndex,
   state |-> "walking_in",
   patience |-> FromInt(CUSTOMER_TYPES[typeIndex].patience),
   maxPatience |-> CUSTOMER_TYPES[typeIndex].patience,
   frame |-> 0,
   frameTimer |-> 0,
   animationSpeed |-> 150,
   isServed |-> FALSE,
   isLeaving |-> FALSE,
   isRemovable |-> FALSE,
   countedAsLost |-> FALSE]

\* the double of type.walkSpeed: 2, 2.5, 3, 1.5 and 3.5 are halves, and
\* the literal 1.8 is the double nearest to 18 / 10
walkSpeed(typeIndex) ==
  IF CUSTOMER_TYPES[typeIndex].walkSpeed10 % 5 = 0
  THEN FromGrid((CUSTOMER_TYPES[typeIndex].walkSpeed10 * 32) \div 10)
  ELSE DDiv(FromInt(CUSTOMER_TYPES[typeIndex].walkSpeed10), 10)

\* speed * k, where speed = walkSpeed * (deltaTime / 16): the division is
\* exact and each product is rounded (deltaTime < 2^19)
Step(c, deltaTime, k) ==
  DMul(DTimes(walkSpeed(c.typeIndex), deltaTime, 0 - 4), k, 0)

\* this.x - speed * k (this.x + speed * k to the right).  The exact
\* speed * k is walkSpeed10 * deltaTime * k / 160; when that is a multiple
\* of 1/32 both products are exact (the double of 1.8 is within a quarter
\* of its last place of 1.8, so that its product with deltaTime / 16
\* rounds to the exact one), and so is the sum with an x that is one.
Walked(c, deltaTime, k, right) ==
  IF /\ IsGrid32(c.x)
     /\ (CUSTOMER_TYPES[c.typeIndex].walkSpeed10 * deltaTime * k) % 5 = 0
     /\ deltaTime < 524288
  THEN FromGrid32(
         Grid32(c.x)
           + (IF right THEN 1 ELSE 0 - 1)
               * ((CUSTOMER_TYPES[c.typeIndex].walkSpeed10 * deltaTime * k)
                    \div 5))
  ELSE DAdd(c.x, [Step(c, deltaTime, k) EXCEPT !.neg = ~right])

\* Customer.getPatiencePercent
getPatiencePercent(c) == DMul(DDiv(c.patience, c.maxPatience), 100, 0)

\* For each maxPatience of CUSTOMER_TYPES, the whole numbers n for which
\* the patience n * maxPatience / 100 is a multiple of 1/32 and the double
\* (patience / maxPatience) * 100 is below n: 29 / 100 * 100 is
\* 28.999999999999996.
FloatLow ==
  [mx \in {60, 70, 80, 100, 110, 120} |->
     IF mx = 100 THEN {29, 57, 58} ELSE {}]

\* Math.floor(getPatiencePercent()).  The double differs from the exact
\* percentage by less than 2^-44; for a patience that is a multiple of 1/32
\* the exact percentage is a whole number or at least 1/3840 away from one,
\* so that the floor of the double is that of the exact percentage except
\* at the whole numbers of FloatLow.
FloorPercent(c) ==
  LET g == Grid(c.patience)
      n == (g * 100) \div (32 * c.maxPatience)
  IN  IF g = NoGrid \/ c.maxPatience \notin DOMAIN FloatLow
      THEN DFloor(getPatiencePercent(c))
      ELSE IF (g * 100) % (32 * c.maxPatience) = 0
              /\ n \in FloatLow[c.maxPatience]
      THEN n - 1
      ELSE n

\* patiencePercent < n, for an integer n: the floor of it is below n
PercentBelow(c, n) == FloorPercent(c) < n

\* Customer.stormOff
stormOff(c) ==
  IF c.isLeaving THEN c
  ELSE [c EXCEPT !.isLeaving = TRUE,
                 !.state = "storming_off",
                 !.frame = 0,
                 !.animationSpeed = 80]

\* a serve() without its first line: it serves whoever it is given
serveUnguarded(c) ==
  [ok |-> TRUE,
   customer |-> [c EXCEPT !.isServed = TRUE,
                          !.state = "happy",
                          !.frame = 0,
                          !.animationSpeed = 150]]

\* Customer.serve: the return value and the customer afterwards
serve(c) ==
  IF c.isServed \/ c.isLeaving
  THEN [ok |-> FALSE, customer |-> c]
  ELSE [ok |-> TRUE,
        customer |-> [c EXCEPT !.isServed = TRUE,
                               !.state = "happy",
                               !.frame = 0,
                               !.animationSpeed = 150]]

\* a customer that has walked in to x1
WalkedIn(c, x1) ==
  IF ~DLess(c.targetX, x1)
  THEN [c EXCEPT !.x = c.targetX, !.state = "idle", !.frame = 0]
  ELSE [c EXCEPT !.x = x1]

\* Customer.updateWalkingIn
updateWalkingIn(c, deltaTime) ==
  CHOOSE c1 \in {WalkedIn(c, x1) : x1 \in {Walked(c, deltaTime, 3, FALSE)}} :
    TRUE

\* decayRate = PATIENCE_DECAY_RATE * difficulty * (deltaTime / 1000):
\* PATIENCE_DECAY_RATE * difficulty is PATIENCE_DECAY_RATE_x2 * diff2 / 4,
\* exactly
decayRate(deltaTime, diff2) ==
  DMul(DDiv(FromInt(deltaTime), 1000), PATIENCE_DECAY_RATE_x2 * diff2, 0 - 2)

\* this.patience - decayRate.  After a whole number of eighths of a second
\* decayRate is a multiple of 1/32, computed exactly, and so is its
\* difference from a patience that is one.
Decayed(patience, deltaTime, diff2) ==
  LET g == Grid(patience)
      i == g - PATIENCE_DECAY_RATE_x2 * diff2 * (deltaTime \div 125)
  IN  IF deltaTime % 125 = 0 /\ g # NoGrid /\ i > 0 - 131072
      THEN IF i < 0 THEN [FromGrid(0 - i) EXCEPT !.neg = TRUE]
           ELSE FromGrid(i)
      ELSE DSub(patience, decayRate(deltaTime, diff2))

\* a decay without its floor at 0
DecayUnfloored(patience, deltaTime, diff2) ==
  Decayed(patience, deltaTime, diff2)

\* the patience left after deltaTime ms at the given difficulty
Decay(patience, deltaTime, diff2) ==
  DMax0(Decayed(patience, deltaTime, diff2))

\* an updateMood whose "impatient" branch does not ask for an idle customer
updateMoodAnyToImpatient(c) ==
  IF c.patience.neg \/ c.patience.m = Zero.m THEN stormOff(c)
  ELSE IF PercentBelow(c, 25) /\ c.state # "angry"
  THEN [c EXCEPT !.state = "angry", !.frame = 0, !.animationSpeed = 100]
  ELSE IF PercentBelow(c, 50)
  THEN [c EXCEPT !.state = "impatient", !.frame = 0, !.animationSpeed = 150]
  ELSE c

\* Customer.updateWaiting after the decay: the state that goes with the
\* patience left
\* (patiencePercent <= 0 exactly when the patience is: the percentage of a
\* positive patience is positive)
updateMood(c) ==
  IF c.patience.neg \/ c.patience.m = Zero.m THEN stormOff(c)
  ELSE IF PercentBelow(c, 25) /\ c.state # "angry"
  THEN [c EXCEPT !.state = "angry", !.frame = 0, !.animationSpeed = 100]
  ELSE IF PercentBelow(c, 50) /\ c.state = "idle"
  THEN [c EXCEPT !.state = "impatient", !.frame = 0, !.animationSpeed = 150]
  ELSE c

\* Customer.updateWaiting
updateWaiting(c, deltaTime, diff2) ==
  updateMood([c EXCEPT !.patience = Decay(c.patience, deltaTime, diff2)])

\* Customer.updateHappy
updateHappy(c) ==
  IF c.frame >= 3
  THEN [c EXCEPT !.state = "walking_out", !.frame = 0, !.isLeaving = TRUE]
  ELSE c

\* an updateLeaving that marks for removal on the left edge only
updateLeavingLeftOnly(c, deltaTime) ==
  CHOOSE c1 \in
    {[c EXCEPT !.x = x1,
               !.isRemovable = \/ c.isRemovable
                               \/ DLess(x1, DNeg(FromInt(0 - CUSTOMER_EXIT_X)))] :
       x1 \in {Walked(c, deltaTime,
                       IF c.state = "walking_out" THEN 2 ELSE 4,
                       c.state # "walking_out")}} : TRUE

\* Customer.updateLeaving
updateLeaving(c, deltaTime) ==
  CHOOSE c1 \in
    {[c EXCEPT !.x = x1,
               !.isRemovable = \/ c.isRemovable
                               \/ DLess(x1, DNeg(FromInt(0 - CUSTOMER_EXIT_X)))
                               \/ DLess(FromInt(CUSTOMER_SPAWN_X), x1)] :
       x1 \in {Walked(c, deltaTime,
                       IF c.state = "walking_out" THEN 2 ELSE 4,
                       c.state # "walking_out")}} : TRUE

\* the animation clock at the head of Customer.update
Animate(c, deltaTime) ==
  IF c.frameTimer + deltaTime >= c.animationSpeed
  THEN [c EXCEPT !.frameTimer = 0, !.frame = c.frame + 1]
  ELSE [c EXCEPT !.frameTimer = c.frameTimer + deltaTime]

\* Customer.update(deltaTime, difficulty)
CustomerUpdate(c, deltaTime, diff2) ==
  LET c1 == Animate(c, deltaTime)
  IN  CASE c1.state = "walking_in" -> updateWalkingIn(c1, deltaTime)
        [] c1.state \in WaitingStates -> updateWaiting(c1, deltaTime, diff2)
        [] c1.state = "happy" -> updateHappy(c1)
        [] c1.state \in {"walking_out", "storming_off"} ->
             updateLeaving(c1, deltaTime)

\* Customer.containsPoint, on the x axis (every customer stands on one
\* row): bounds.x = this.x - 40, and px >= bounds.x && px <= bounds.x + 80
containsPoint(c, px) ==
  IF IsGrid32(c.x) /\ IsGrid32(px)
  THEN /\ Grid32(px) >= Grid32(c.x) - 40 * 32
       /\ Grid32(px) <= Grid32(c.x) - 40 * 32 + 80 * 32
  ELSE \E left \in {DAdd(c.x, DNeg(FromInt(40)))} :
         /\ ~DLess(px, left)
         /\ ~DLess(DAdd(left, FromInt(80)), px)

---------------------------------------------------------------------------
(* services/api.js, as the engine sees it *)

Phones == {<<"wa", n>> : n \in Chats}

RECURSIVE SeqsUpTo(_, _)
SeqsUpTo(S, n) ==
  IF n = 0 THEN {<<>>}
  ELSE LET shorter == SeqsUpTo(S, n - 1)
       IN  shorter \cup {Append(q, e) : q \in shorter, e \in S}

\* what fetchIncomingMessages can resolve to: it catches its own errors
\* (success = false, no messages); seenMessageIds keeps message ids apart
\* but not phones, so one result may name a phone twice
PollResults ==
  {[success |-> TRUE, messages |-> m] : m \in SeqsUpTo(Phones, 2)}
    \cup {[success |-> FALSE, messages |-> <<>>]}

\* how the awaited sendWhatsAppMessage can settle for serveCustomer: with
\* success, with success = false (it catches its own errors), or with a
\* rejection, which the catch of serveCustomer takes
DeliveryOutcomes == {"sent", "failed", "threw"}

---------------------------------------------------------------------------
(* gemini-bot: sessionManager.js *)

SESSION_TIMEOUT_MS == 10 * 60 * 1000
RATE_LIMIT_MS == 60 * 60 * 1000
MAX_MESSAGES_PER_SESSION == 20

BotPhones == {"972501111111", "972502222222"}

\* activeSessions.get(phone) === undefined; row ids start at 1
NoSession == [sessionId |-> 0, messageCount |-> 0, startTime |-> 0]
\* a handler that returned without awaiting the model
NoCall == [phone |-> "", count |-> 0]
\* a handler that returned or suspended without sending the welcome message
NoWelcome == [phone |-> "", isVoice |-> FALSE, question |-> FALSE]
\* no reason given: end_reason NULL, result.reason undefined
NoReason == "none"

\* Math.ceil(a / b) for b > 0
CeilDiv(a, b) == (a + b - 1) \div b

\* the session manager: the table and the map
Manager == [db |-> chatDb, active |-> activeSessions]

\* the rows of phone started after t - RATE_LIMIT_MS
RecentSessions(db, phone, t) ==
  {i \in DOMAIN db :
     db[i].phone = phone /\ db[i].started_at > t - RATE_LIMIT_MS}

\* SessionManager.canStartSession(phone): oneHourAgo is taken from the
\* reading t1, and waitTime, when a recent session is found, from a second
\* reading t2
canStartSession(db, phone, t1, t2) ==
  LET recent == RecentSessions(db, phone, t1)
  IN  IF recent # {}
      THEN LET r == CHOOSE i \in recent :
                      \A j \in recent :
                        \/ db[j].started_at < db[i].started_at
                        \/ db[j].started_at = db[i].started_at /\ j <= i
           IN  [allowed |-> FALSE,
                waitMinutes |->
                  CeilDiv(db[r].started_at + RATE_LIMIT_MS - t2, 60000)]
      ELSE [allowed |-> TRUE, waitMinutes |-> NULL]

\* SessionManager.startSession(phone), which reads the clock once
startSession(m, phone, t) ==
  LET db1 == Append(m.db, [phone |-> phone, started_at |-> t,
                           ended_at |-> NULL, message_count |-> 0,
                           end_reason |-> NoReason])
  IN  [db |-> db1,
       active |-> [m.active EXCEPT
                     ![phone] = [sessionId |-> Len(db1), messageCount |-> 0,
                                 startTime |-> t]]]

\* SessionManager.endSession(phone, reason), which reads the clock once,
\* when there is a session to end
endSession(m, phone, reason, t) ==
  LET session == m.active[phone]
  IN  IF session = NoSession THEN m
      ELSE [db |-> [m.db EXCEPT ![session.sessionId] =
                      [@ EXCEPT !.ended_at = t, !.end_reason = reason]],
            active |-> [m.active EXCEPT ![phone] = NoSession]]

\* a getSession that keeps a session for one timeout longer
getSessionLate(m, phone, ts) ==
  LET session == m.active[phone]
  IN  IF session = NoSession
      THEN [session |-> NoSession, m |-> m, ts |-> ts]
      ELSE IF ts[1] - session.startTime > 2 * SESSION_TIMEOUT_MS
      THEN [session |-> NoSession,
            m |-> endSession(m, phone, "timeout", ts[2]),
            ts |-> Tail(Tail(ts))]
      ELSE [session |-> session, m |-> m, ts |-> Tail(ts)]

\* SessionManager.getSession(phone): the answer, the manager afterwards
\* and the readings left.  It reads the clock when it finds a session, and
\* endSession reads it again
getSession(m, phone, ts) ==
  LET session == m.active[phone]
  IN  IF session = NoSession
      THEN [session |-> NoSession, m |-> m, ts |-> ts]
      ELSE IF ts[1] - session.startTime > SESSION_TIMEOUT_MS
      THEN [session |-> NoSession,
            m |-> endSession(m, phone, "timeout", ts[2]),
            ts |-> Tail(Tail(ts))]
      ELSE [session |-> session, m |-> m, ts |-> Tail(ts)]

\* SessionManager.canSendMessage(phone): the answer and the manager
\* afterwards.  timeRemaining is taken from a reading of its own, after
\* those of getSession
canSendMessage(m, phone, ts) ==
  LET g == getSession(m, phone, ts)
      session == g.session
  IN  IF session = NoSession
      THEN [result |-> [allowed |-> FALSE, reason |-> "no_session",
                        messagesRemaining |-> NULL],
            m |-> g.m]
      ELSE IF session.messageCount >= MAX_MESSAGES_PER_SESSION
      THEN [result |-> [allowed |-> FALSE, reason |-> "max_messages",
                        messagesRemaining |-> NULL],
            m |-> endSession(g.m, phone, "max_messages", g.ts[1])]
      ELSE IF SESSION_TIMEOUT_MS - (g.ts[1] - session.startTime) <= 0
      THEN [result |-> [allowed |-> FALSE, reason |-> "timeout",
                        messagesRemaining |-> NULL],
            m |-> endSession(g.m, phone, "timeout", g.ts[2])]
      ELSE [result |-> [allowed |-> TRUE, reason |-> NoReason,
                        messagesRemaining |->
                          MAX_MESSAGES_PER_SESSION - session.messageCount],
            m |-> g.m]

\* SessionManager.recordMessage(phone, count)
recordMessage(m, phone, count) ==
  LET session == m.active[phone]
  IN  IF session = NoSession THEN m
      ELSE [db |-> [m.db EXCEPT ![session.sessionId].message_count =
                      session.messageCount + count],
            active |-> [m.active EXCEPT
                          ![phone].messageCount = @ + count]]

\* SessionManager.getSessionStatus(phone): the answer and the manager
\* afterwards.  timeRemainingSeconds is taken from a reading of its own,
\* after those of getSession; waitMinutes is canStart.waitMinutes || 0
getSessionStatus(m, phone, ts) ==
  LET g == getSession(m, phone, ts)
      canStart == canStartSession(g.m.db, phone, g.ts[1], g.ts[2])
  IN  IF g.session # NoSession
      THEN [status |-> [active |-> TRUE,
                        messageCount |-> g.session.messageCount,
                        timeRemainingSeconds |->
                          CeilDiv(SESSION_TIMEOUT_MS
                                    - (g.ts[1] - g.session.startTime), 1000)],
            m |-> g.m]
      ELSE [status |-> [active |-> FALSE,
                        canStartNew |-> canStart.allowed,
                        waitMinutes |-> IF canStart.allowed THEN 0
                                        ELSE canStart.waitMinutes],
            m |-> g.m]

\* the loop of cleanupExpiredSessions over the sessions of phones, in the
\* order of the map (the order in which they were started): each is held
\* against the one reading now, and endSession reads the clock again
RECURSIVE cleanupPhones(_, _, _, _)
cleanupPhones(m, phones, t, ts) ==
  IF phones = {} THEN m
  ELSE LET phone == CHOOSE ph \in phones :
                      \A q \in phones :
                        m.active[ph].sessionId <= m.active[q].sessionId
           expired == t - m.active[phone].startTime > SESSION_TIMEOUT_MS
       IN  cleanupPhones(IF expired
                         THEN endSession(m, phone, "timeout", ts[1])
                         ELSE m,
                         phones \ {phone}, t,
                         IF expired THEN Tail(ts) ELSE ts)

\* SessionManager.cleanupExpiredSessions(): const now = Date.now() is its
\* first reading
cleanupExpiredSessions(m, ts) ==
  cleanupPhones(m, {ph \in BotPhones : m.active[ph] # NoSession}, ts[1],
                Tail(ts))

---------------------------------------------------------------------------
(* gemini-bot: the server *)

\* what a message says, as far as the handler tells messages apart: the
\* trigger phrase alone, the trigger phrase with a question, a question,
\* an end keyword, or a voice message that could not be transcribed
Contents == {"trigger", "triggerAndQuestion", "question", "end",
             "untranscribed"}

\* the most readings of the clock that one run of a handler takes, from
\* one await to the next: the webhook handler (getSession twice, with a
\* session that expires at the second; canStartSession; startSession;
\* getSession, with endSession), the handler after the welcome message
\* (canSendMessage), the status endpoint, the cleanup timer
WebhookReads == 7
WelcomeReads == 3
StatusReads == 4
CleanupReads == 1 + Cardinality(BotPhones)

\* app.post('/webhook') for a private message from phone, from its first
\* reading of the sessions up to the point where it returns or suspends,
\* at await sendWhatsAppMessage of the welcome message when it has started
\* a session, at await sendMessage when it has found one: the manager
\* afterwards and the suspended handler, if any
webhook(m, phone, isVoice, content, ts) ==
  LET messageCount == IF isVoice THEN 2 ELSE 1
      call == [phone |-> phone, count |-> messageCount]
      existing == getSession(m, phone, ts)
      found == getSession(existing.m, phone, existing.ts)
      canStart == canStartSession(found.m.db, phone, found.ts[1], found.ts[2])
      started == getSession(startSession(found.m, phone, found.ts[2]), phone,
                            Tail(Tail(found.ts))).m
      canSend == canSendMessage(found.m, phone, found.ts)
      none == [welcome |-> NoWelcome, call |-> NoCall]
  IN  IF content = "untranscribed"
      THEN [m |-> existing.m] @@ none
      ELSE IF existing.session # NoSession /\ content = "end"
      THEN [m |-> endSession(existing.m, phone, "user_ended", existing.ts[1])]
             @@ none
      ELSE IF found.session = NoSession
      THEN IF content \notin {"trigger", "triggerAndQuestion"}
           THEN [m |-> found.m] @@ none
           ELSE IF ~canStart.allowed
           THEN [m |-> found.m] @@ none
           ELSE [m |-> started,
                 welcome |-> [phone |-> phone, isVoice |-> isVoice,
                              question |-> content = "triggerAndQuestion"],
                 call |-> NoCall]
      ELSE IF ~canSend.result.allowed
              \/ canSend.result.messagesRemaining < messageCount
      THEN [m |-> canSend.m] @@ none
      ELSE [m |-> canSend.m, welcome |-> NoWelcome, call |-> call]

\* the handler that sent the welcome message w, from the return of await
\* sendWhatsAppMessage up to the point where it returns or suspends at
\* await sendMessage: the manager afterwards and the suspended call, if any
afterWelcome(m, w, ts) ==
  LET messageCount == IF w.isVoice THEN 2 ELSE 1
      canSend == canSendMessage(m, w.phone, ts)
  IN  IF ~w.question
      THEN [m |-> m, call |-> NoCall]
      ELSE IF ~canSend.result.allowed
      THEN [m |-> canSend.m, call |-> NoCall]
      ELSE [m |-> canSend.m,
            call |-> [phone |-> w.phone, count |-> messageCount]]

\* the clock of the bot over the readings ts of one run of a handler
BotClock(ts) ==
  /\ Monotone(ts, botNow)
  /\ botNow' = ts[Len(ts)]
  /\ botTicks' = botTicks + Moves(ts, botNow)

\* a webhook message arrives and its handler runs to its return, to its
\* await of the welcome message or to its await of the model's reply,
\* reading ts on the clock
Webhook(phone, isVoice, content, ts) ==
  /\ content = "untranscribed" => isVoice
  /\ LET w == webhook(Manager, phone, isVoice, content, ts)
     IN  /\ chatDb' = w.m.db
         /\ activeSessions' = w.m.active
         /\ welcomes' = IF w.welcome = NoWelcome THEN welcomes
                        ELSE Append(welcomes, w.welcome)
         /\ handlers' = IF w.call = NoCall THEN handlers
                        ELSE Append(handlers, w.call)
  /\ BotClock(ts)
  /\ UNCHANGED gameVars

\* the awaited sendWhatsAppMessage of welcomes[k] settles and the handler
\* runs to its return or to its await of the model's reply
WelcomeSent(k, ts) ==
  /\ k \in DOMAIN welcomes
  /\ LET w == afterWelcome(Manager, welcomes[k], ts)
     IN  /\ chatDb' = w.m.db
         /\ activeSessions' = w.m.active
         /\ handlers' = IF w.call = NoCall THEN handlers
                        ELSE Append(handlers, w.call)
  /\ welcomes' = [j \in 1..(Len(welcomes) - 1) |->
                    IF j < k THEN welcomes[j] ELSE welcomes[j + 1]]
  /\ BotClock(ts)
  /\ UNCHANGED gameVars

\* the awaited sendMessage of handlers[k] settles and the handler runs to
\* its end: recordMessage when the model answered
GeminiReply(k, success) ==
  /\ k \in DOMAIN handlers
  /\ LET call == handlers[k]
         m1 == IF success THEN recordMessage(Manager, call.phone, call.count)
               ELSE Manager
     IN  /\ chatDb' = m1.db
         /\ activeSessions' = m1.active
  /\ handlers' = [j \in 1..(Len(handlers) - 1) |->
                    IF j < k THEN handlers[j] ELSE handlers[j + 1]]
  /\ UNCHANGED <<botNow, welcomes, botTicks>>
  /\ UNCHANGED gameVars

\* app.get('/session/:phone')
GetSessionStatus(phone, ts) ==
  /\ LET r == getSessionStatus(Manager, phone, ts)
     IN  /\ chatDb' = r.m.db
         /\ activeSessions' = r.m.active
  /\ BotClock(ts)
  /\ UNCHANGED <<welcomes, handlers>>
  /\ UNCHANGED gameVars

\* app.delete('/session/:phone')
DeleteSession(phone, ts) ==
  /\ LET m1 == endSession(Manager, phone, "admin", ts[1])
     IN  /\ chatDb' = m1.db
         /\ activeSessions' = m1.active
  /\ BotClock(ts)
  /\ UNCHANGED <<welcomes, handlers>>
  /\ UNCHANGED gameVars

\* the setInterval callback of the server
Cleanup(ts) ==
  /\ LET m1 == cleanupExpiredSessions(Manager, ts)
     IN  /\ chatDb' = m1.db
         /\ activeSessions' = m1.active
  /\ BotClock(ts)
  /\ UNCHANGED <<welcomes, handlers>>
  /\ UNCHANGED gameVars

\* time passes in the bot process while no handler runs
BotAdvance(d) ==
  /\ botNow' = botNow + d
  /\ botTicks' = botTicks + 1
  /\ UNCHANGED <<chatDb, activeSessions, welcomes, handlers>>
  /\ UNCHANGED gameVars

\* new SessionManager() on an empty database
BotInit ==
  /\ botNow = 0
  /\ chatDb = <<>>
  /\ activeSessions = [ph \in BotPhones |-> NoSession]
  /\ welcomes = <<>>
  /\ handlers = <<>>
  /\ botTicks = 0

---------------------------------------------------------------------------
(* Game.js *)

\* what is recorded about each customer ever made (served, diff2: the
\* customersServed and the difficulty of the round when it was lost)
NoHist == [scored |-> 0, sent |-> 0, lost |-> 0, patienceAtServe |-> Zero,
           maxPatience |-> 0, served |-> 0, diff2 |-> 0, typeIndex |-> 0]

\* Game constructor, and init() up to its first await
Init ==
  /\ now = 0
  /\ lastTime = 0
  /\ state = "menu"
  /\ score = 0
  /\ customersServed = 0
  /\ customersLost = 0
  /\ comboCount = 0
  /\ maxCombo = 0
  /\ difficulty2 = 2
  /\ lastSpawnTime = 0
  /\ lastApiPoll = 0
  /\ comboTimer = 0
  /\ customers = <<>>
  /\ customerSlots = [i \in SlotIndices |-> NULL]
  /\ bottles = [i \in BottleIndices |-> NewBottle(i)]
  /\ selectedBottleIndex = NULL
  /\ demoMode = TRUE
  /\ pendingRealMessages = <<>>
  /\ customerIdCounter = 0
  /\ polls = <<>>
  /\ serves = <<>>
  /\ ticks = 0
  /\ justStarted = FALSE
  /\ hist = <<>>
  /\ BotInit

\* a slot search that answers slot 0 when the bar is full
FindSlotOrFirst(slots) ==
  IF \E i \in SlotIndices : slots[i] = NULL
  THEN CHOOSE i \in SlotIndices :
         slots[i] = NULL /\ \A j \in SlotIndices : slots[j] = NULL => i <= j
  ELSE 0

\* customerSlots.findIndex(slot => slot === null)
FindEmptySlot(slots) ==
  IF \E i \in SlotIndices : slots[i] = NULL
  THEN CHOOSE i \in SlotIndices :
         slots[i] = NULL /\ \A j \in SlotIndices : slots[j] = NULL => i <= j
  ELSE NULL

\* a spawnCustomer that serves the queue from its newest entry
spawnCustomerNewestFirst(custs, slots, pending, idc, typeIndex) ==
  LET emptySlotIndex == FindEmptySlot(slots)
      fromQueue == Len(pending) > 0
      customer == NewCustomer(idc + 1, typeIndex,
                              IF fromQueue THEN pending[Len(pending)]
                              ELSE <<>>,
                              fromQueue, emptySlotIndex)
  IN  IF emptySlotIndex = NULL
      THEN [customers |-> custs, customerSlots |-> slots,
            pendingRealMessages |-> pending, customerIdCounter |-> idc]
      ELSE [customers |-> Append(custs, customer),
            customerSlots |-> [slots EXCEPT ![emptySlotIndex] = customer.id],
            pendingRealMessages |->
              IF fromQueue THEN SubSeq(pending, 1, Len(pending) - 1)
              ELSE pending,
            customerIdCounter |-> idc + 1]

\* a spawnCustomer that takes the head off the queue before it looks for
\* a slot
spawnCustomerShiftFirst(custs, slots, pending, idc, typeIndex) ==
  LET emptySlotIndex == FindEmptySlot(slots)
      fromQueue == Len(pending) > 0
      rest == IF fromQueue THEN Tail(pending) ELSE pending
      customer == NewCustomer(idc + 1, typeIndex,
                              IF fromQueue THEN Head(pending) ELSE <<>>,
                              fromQueue, emptySlotIndex)
  IN  IF emptySlotIndex = NULL
      THEN [customers |-> custs, customerSlots |-> slots,
            pendingRealMessages |-> rest, customerIdCounter |-> idc]
      ELSE [customers |-> Append(custs, customer),
            customerSlots |-> [slots EXCEPT ![emptySlotIndex] = customer.id],
            pendingRealMessages |-> rest,
            customerIdCounter |-> idc + 1]

\* Game.spawnCustomer, with the type Math.random() picks
spawnCustomer(custs, slots, pending, idc, typeIndex) ==
  LET emptySlotIndex == FindEmptySlot(slots)
      fromQueue == Len(pending) > 0
      customer == NewCustomer(idc + 1, typeIndex,
                              IF fromQueue THEN Head(pending) ELSE <<>>,
                              fromQueue, emptySlotIndex)
  IN  IF emptySlotIndex = NULL
      THEN [customers |-> custs, customerSlots |-> slots,
            pendingRealMessages |-> pending, customerIdCounter |-> idc]
      ELSE [customers |-> Append(custs, customer),
            customerSlots |-> [slots EXCEPT ![emptySlotIndex] = customer.id],
            pendingRealMessages |-> IF fromQueue THEN Tail(pending) ELSE pending,
            customerIdCounter |-> idc + 1]

\* a spawn test that waits until the interval is exceeded
SpawnDueLate(t, diff2) ==
  /\ t > MIN_SPAWN_INTERVAL
  /\ t * diff2 > 2 * BASE_SPAWN_INTERVAL

\* lastSpawnTime >= Math.max(MIN_SPAWN_INTERVAL, BASE_SPAWN_INTERVAL / difficulty)
SpawnDue(t, diff2) ==
  /\ t >= MIN_SPAWN_INTERVAL
  /\ t * diff2 >= 2 * BASE_SPAWN_INTERVAL

\* a game-over test that waits for one more lost customer
LostMoreThanMax(lost) == lost > MAX_LOST

\* customersLost >= MAX_LOST, the test that calls gameOver()
LostTooMany(lost) == lost >= MAX_LOST

\* a combo that lasts until the timer is below zero
ExpireComboBelowZero(combo, timer1) ==
  IF combo > 0 /\ timer1 < 0 THEN 0 ELSE combo

\* if (this.comboTimer <= 0) this.comboCount = 0, inside the block that
\* update() runs while comboCount > 0; timer1 is the timer just decreased
ExpireCombo(combo, timer1) ==
  IF combo > 0 /\ timer1 <= 0 THEN 0 ELSE combo

\* a combo that survives the loss of a single customer
ComboAfterLossOfTwo(newly, combo) ==
  IF Cardinality(newly) >= 2 THEN 0 ELSE combo

\* this.comboCount = 0 for each customer the loop of update() counts as
\* lost; combo is the count the timer block left
ComboAfterLoss(newly, combo) ==
  IF newly # {} THEN 0 ELSE combo

\* a loop that does not look at countedAsLost
NewlyLostCountedAgain(custs) ==
  {i \in DOMAIN custs : custs[i].state = "storming_off"}

\* the forEach of update() that counts the customers who left angry
NewlyLost(custs) ==
  {i \in DOMAIN custs :
     custs[i].state = "storming_off" /\ ~custs[i].countedAsLost}

\* a difficulty rule without the cap at 3
NextDifficulty2Uncapped(served, diff2) ==
  IF served > 0 /\ served % 10 = 0
  THEN 2 + served \div 10
  ELSE diff2

\* the difficulty assignment at the end of update(), doubled
NextDifficulty2(served, diff2) ==
  IF served > 0 /\ served % 10 = 0
  THEN Min(2 * 3, 2 + served \div 10)
  ELSE diff2

\* the filter of update() that drops the removable customers
Remaining(custs) == SelectSeq(custs, LAMBDA c : ~c.isRemovable)

\* a filter that gives a slot back as soon as its customer turns to leave
FreedSlotsOnLeaving(custs, slots) ==
  [i \in SlotIndices |->
     IF \E k \in DOMAIN custs :
          custs[k].isLeaving /\ custs[k].slotIndex = i
     THEN NULL ELSE slots[i]]

\* a filter that drops the customers and leaves the slots as they are
FreedSlotsNone(custs, slots) == slots

\* ... and frees their slots
FreedSlots(custs, slots) ==
  [i \in SlotIndices |->
     IF \E k \in DOMAIN custs :
          custs[k].isRemovable /\ custs[k].slotIndex = i
     THEN NULL ELSE slots[i]]

\* an update() that returns early in the menu only
UpdateSkippedInMenu(st) == st = "menu"

\* if (this.state !== 'playing') return;  at the head of update()
UpdateSkipped(st) == st # "playing"

\* the readings of the clock on which the state of a bottle depends in
\* update() (those of Bottle.update; the ones around it, Game.js 219 and
\* 223, choose the ready sound, and the one of the glow, Bottle.js 87, the
\* drawing), and those of a frame
BottleReads == 3
FrameReads == BottleReads * Cardinality(BottleIndices)

\* Game.update(deltaTime), with the type a spawn would pick and the
\* readings ts of the clock, BottleReads for each bottle in turn
update(deltaTime, ts, typeIndex) ==
  LET comboTimer1 == IF comboCount > 0 THEN comboTimer - deltaTime
                     ELSE comboTimer
      comboCount1 == ExpireCombo(comboCount, comboTimer1)
      apiPoll1 == lastApiPoll + deltaTime
      doPoll == ~demoMode /\ apiPoll1 >= apiPollInterval
      spawnTime1 == lastSpawnTime + deltaTime
      doSpawn == SpawnDue(spawnTime1, difficulty2)
      spawned == IF doSpawn
                 THEN spawnCustomer(customers, customerSlots,
                                    pendingRealMessages, customerIdCounter,
                                    typeIndex)
                 ELSE [customers |-> customers,
                       customerSlots |-> customerSlots,
                       pendingRealMessages |-> pendingRealMessages,
                       customerIdCounter |-> customerIdCounter]
  IN  \E sp \in {spawned} :
      \E custs2 \in {[i \in DOMAIN sp.customers |->
                        CustomerUpdate(sp.customers[i], deltaTime,
                                       difficulty2)]} :
      \E newly \in {NewlyLost(custs2)} :
      \E custs3 \in {[i \in DOMAIN custs2 |->
                        IF i \in newly
                        THEN [custs2[i] EXCEPT !.countedAsLost = TRUE]
                        ELSE custs2[i]]} :
      \E lostIds \in {{custs2[i].id : i \in newly}} :
      \E hist1 \in {IF sp.customerIdCounter > customerIdCounter
                    THEN Append(hist, [NoHist EXCEPT !.typeIndex = typeIndex])
                    ELSE hist} :
        /\ comboTimer' = comboTimer1
        /\ comboCount' = ComboAfterLoss(newly, comboCount1)
        /\ lastApiPoll' = IF doPoll THEN 0 ELSE apiPoll1
        /\ polls' = IF doPoll THEN Append(polls, [stale |-> FALSE])
                    ELSE polls
        /\ lastSpawnTime' = IF doSpawn THEN 0 ELSE spawnTime1
        /\ pendingRealMessages' = sp.pendingRealMessages
        /\ customerIdCounter' = sp.customerIdCounter
        /\ customersLost' = customersLost + Cardinality(newly)
        /\ state' = IF \E k \in 1..Cardinality(newly) :
                         LostTooMany(customersLost + k)
                    THEN "gameover" ELSE state
        /\ customers' = Remaining(custs3)
        /\ customerSlots' = FreedSlots(custs3, sp.customerSlots)
        /\ bottles' = [i \in BottleIndices |->
                         BottleUpdate(bottles[i], deltaTime,
                                      ts[BottleReads * i + 1],
                                      ts[BottleReads * i + 2],
                                      ts[BottleReads * i + 3])]
        /\ difficulty2' = NextDifficulty2(customersServed, difficulty2)
        /\ hist' = [id \in DOMAIN hist1 |->
                      IF id \in lostIds
                      THEN [hist1[id] EXCEPT !.lost = @ + 1,
                                             !.served = customersServed,
                                             !.diff2 = difficulty2]
                      ELSE hist1[id]]
        /\ UNCHANGED <<score, customersServed, maxCombo,
                       selectedBottleIndex, demoMode, serves>>

\* Game.gameLoop(timestamp): one animation frame, deltaTime after the
\* last, whose callback reads ts on the clock, no earlier than its
\* timestamp
Tick(deltaTime, typeIndex, ts) ==
  /\ Monotone(ts, now)
  /\ ts[1] >= lastTime + deltaTime
  /\ ticks' = ticks + 1
  /\ lastTime' = lastTime + deltaTime
  /\ now' = ts[Len(ts)]
  /\ justStarted' = FALSE
  /\ UNCHANGED botVars
  /\ IF UpdateSkipped(state)
     THEN UNCHANGED <<state, score, customersServed, customersLost,
                      comboCount, maxCombo, difficulty2, lastSpawnTime,
                      lastApiPoll, comboTimer, customers, customerSlots,
                      bottles, selectedBottleIndex, demoMode,
                      pendingRealMessages, customerIdCounter, polls, serves,
                      hist>>
     ELSE update(deltaTime, ts, typeIndex)

\* the fields of the game serveCustomer reads and writes
GameView ==
  [customers |-> customers, bottles |-> bottles, score |-> score,
   customersServed |-> customersServed, comboCount |-> comboCount,
   maxCombo |-> maxCombo, comboTimer |-> comboTimer, serves |-> serves,
   hist |-> hist]

\* points with the combo bonus taken after the combo count went up
PointsAfterIncrement(c, combo) ==
  BASE_SCORE + FloorPercent(c) * PATIENCE_BONUS_MULTIPLIER
    + (combo + 1) * COMBO_BONUS

\* points of serveCustomer for a customer served with comboCount = combo:
\* BASE_SCORE + Math.floor(percent * PATIENCE_BONUS_MULTIPLIER) + comboBonus
\* (the multiplier is the integer 1, so the floor is of the percent)
Points(c, combo) ==
  BASE_SCORE + FloorPercent(c) * PATIENCE_BONUS_MULTIPLIER + combo * COMBO_BONUS

\* Game.serveCustomer from "Use the bottle" on: what runs after the await,
\* or at once when nothing is awaited.  sv holds what the suspended call
\* keeps of its customer and bottle (a served customer's patience no
\* longer changes).  bottle.use() reads the clock at t1 and t2.
FinishServe(g, sv, t1, t2) ==
  LET points == Points(sv, g.comboCount)
  IN  [g EXCEPT
         !.bottles[sv.bottle] = use(g.bottles[sv.bottle], t1, t2).bottle,
         !.score = @ + points,
         !.customersServed = @ + 1,
         !.comboCount = @ + 1,
         !.maxCombo = Max(@, g.comboCount + 1),
         !.comboTimer = COMBO_TIMEOUT,
         !.hist[sv.id] = [@ EXCEPT !.scored = @ + 1,
                                   !.patienceAtServe = sv.patience,
                                   !.maxPatience = sv.maxPatience]]

\* a serveCustomer that sends a message for every customer in live mode
serveCustomerSendsForAll(g, i, t, t1, t2, sel, demo) ==
  LET c == g.customers[i]
      r == serve(c)
      sv == [id |-> c.id, bottle |-> sel, patience |-> c.patience,
             maxPatience |-> c.maxPatience, stale |-> FALSE]
      g1 == [g EXCEPT !.customers[i] = r.customer]
  IN  IF sel = NULL THEN g
      ELSE IF g.bottles[sel].locked THEN g
      ELSE IF isOnCooldown(g.bottles[sel], t) THEN g
      ELSE IF ~r.ok THEN g
      ELSE IF ~demo
      THEN [g1 EXCEPT !.serves = Append(@, sv),
                      !.hist[c.id] = [@ EXCEPT !.sent = @ + 1]]
      ELSE FinishServe(g1, sv, t1, t2)

\* a serveCustomer that does not ask whether the bottle is on cooldown
serveCustomerIgnoringCooldown(g, i, t, t1, t2, sel, demo) ==
  LET c == g.customers[i]
      r == serve(c)
      sv == [id |-> c.id, bottle |-> sel, patience |-> c.patience,
             maxPatience |-> c.maxPatience, stale |-> FALSE]
      g1 == [g EXCEPT !.customers[i] = r.customer]
  IN  IF sel = NULL THEN g
      ELSE IF g.bottles[sel].locked THEN g
      ELSE IF ~r.ok THEN g
      ELSE IF c.isReal /\ ~demo
      THEN [g1 EXCEPT !.serves = Append(@, sv),
                      !.hist[c.id] = [@ EXCEPT !.sent = @ + 1]]
      ELSE FinishServe(g1, sv, t1, t2)

\* Game.serveCustomer(customer) up to its await, for the customer at
\* position i of the list: it reads the clock at t for the cooldown of the
\* bottle, and bottle.use() reads it at t1 and t2
serveCustomer(g, i, t, t1, t2, sel, demo) ==
  LET c == g.customers[i]
      r == serve(c)
      sv == [id |-> c.id, bottle |-> sel, patience |-> c.patience,
             maxPatience |-> c.maxPatience, stale |-> FALSE]
      g1 == [g EXCEPT !.customers[i] = r.customer]
  IN  IF sel = NULL THEN g
      ELSE IF g.bottles[sel].locked THEN g
      ELSE IF isOnCooldown(g.bottles[sel], t) THEN g
      ELSE IF ~r.ok THEN g
      ELSE IF c.isReal /\ ~demo
      THEN [g1 EXCEPT !.serves = Append(@, sv),
                      !.hist[c.id] = [@ EXCEPT !.sent = @ + 1]]
      ELSE FinishServe(g1, sv, t1, t2)

\* the readings of the clock that serveCustomer takes up to its await,
\* those of a click on the bar, and those of serveCustomer after its await
ServeReads == 3
ClickReads == ServeReads * MAX_CUSTOMERS
ResumeReads == 2

\* the customer loop of handleClick for a click at px, with the readings
\* ts of the clock, ServeReads for each customer of the list in turn
RECURSIVE ClickCustomers(_, _, _, _, _, _)
ClickCustomers(g, i, px, ts, sel, demo) ==
  IF i > Len(g.customers) THEN g
  ELSE LET c == g.customers[i]
           g1 == IF containsPoint(c, px) /\ ~c.isLeaving /\ ~c.isServed
                 THEN serveCustomer(g, i, ts[ServeReads * i - 2],
                                    ts[ServeReads * i - 1],
                                    ts[ServeReads * i], sel, demo)
                 ELSE g
       IN  ClickCustomers(g1, i + 1, px, ts, sel, demo)

SetGameView(g) ==
  /\ customers' = g.customers
  /\ bottles' = g.bottles
  /\ score' = g.score
  /\ customersServed' = g.customersServed
  /\ comboCount' = g.comboCount
  /\ maxCombo' = g.maxCombo
  /\ comboTimer' = g.comboTimer
  /\ serves' = g.serves
  /\ hist' = g.hist

\* Game.handleClick on a bottle of the shelf
ClickBottle(index) ==
  /\ state = "playing"
  /\ selectedBottleIndex' = IF bottles[index].locked THEN selectedBottleIndex
                            ELSE index
  /\ justStarted' = (justStarted /\ selectedBottleIndex' = selectedBottleIndex)
  /\ UNCHANGED botVars
  /\ UNCHANGED <<now, lastTime, state, score, customersServed, customersLost,
                 comboCount, maxCombo, difficulty2, lastSpawnTime,
                 lastApiPoll, comboTimer, customers, customerSlots, bottles,
                 demoMode, pendingRealMessages, customerIdCounter, polls,
                 serves, ticks, hist>>

\* Game.handleClick on the bar, at the x of one of the customers, reading
\* ts on the clock
ClickCustomer(k, ts) ==
  /\ state = "playing"
  /\ k \in DOMAIN customers
  /\ Monotone(ts, now)
  /\ now' = ts[Len(ts)]
  /\ SetGameView(ClickCustomers(GameView, 1, customers[k].x, ts,
                                selectedBottleIndex, demoMode))
  /\ justStarted' = (justStarted /\ customers' = customers)
  /\ UNCHANGED botVars
  /\ UNCHANGED <<lastTime, state, customersLost, difficulty2, lastSpawnTime,
                 lastApiPoll, customerSlots, selectedBottleIndex, demoMode,
                 pendingRealMessages, customerIdCounter, polls, ticks>>

\* a resumed serveCustomer that goes on to the bottle and the score only
\* when the message was sent
resumeServeIfSent(g, sv, outcome, t1, t2) ==
  IF outcome = "sent" THEN FinishServe(g, sv, t1, t2) ELSE g

\* serveCustomer from the point where the awaited call settles: the try
\* block logs (sent), reports (failed) or catches (threw), none of which
\* writes a field of the game, and the rest of the method follows, in
\* which bottle.use() reads the clock at t1 and t2
resumeServe(g, sv, outcome, t1, t2) ==
  LET afterTry == CASE outcome = "sent" -> g
                    [] outcome = "failed" -> g
                    [] outcome = "threw" -> g
  IN  FinishServe(afterTry, sv, t1, t2)

\* the deliveries in flight without the k-th
WithoutServe(k) ==
  [j \in 1..(Len(serves) - 1) |-> IF j < k THEN serves[j] ELSE serves[j + 1]]

\* the awaited sendWhatsAppMessage of serves[k] settles, and serveCustomer
\* runs to its end, reading ts on the clock
DeliveryComplete(k, outcome, ts) ==
  /\ k \in DOMAIN serves
  /\ Monotone(ts, now)
  /\ now' = ts[Len(ts)]
  /\ SetGameView(resumeServe([GameView EXCEPT !.serves = WithoutServe(k)],
                             serves[k], outcome, ts[1], ts[2]))
  /\ justStarted' = FALSE
  /\ UNCHANGED botVars
  /\ UNCHANGED <<lastTime, state, customersLost, difficulty2, lastSpawnTime,
                 lastApiPoll, customerSlots, selectedBottleIndex, demoMode,
                 pendingRealMessages, customerIdCounter, polls, ticks>>

\* an enqueue loop that looks for the phone among the customers only
RECURSIVE EnqueueUnlessActive(_, _, _)
EnqueueUnlessActive(pending, custs, msgs) ==
  IF msgs = <<>> THEN pending
  ELSE LET phone == Head(msgs)
           alreadyExists == \E i \in DOMAIN custs : custs[i].phone = phone
       IN  EnqueueUnlessActive(IF alreadyExists THEN pending
                               ELSE Append(pending, phone),
                               custs, Tail(msgs))

\* the enqueue loop of pollIncomingMessages over result.messages
RECURSIVE Enqueue(_, _, _)
Enqueue(pending, custs, msgs) ==
  IF msgs = <<>> THEN pending
  ELSE LET phone == Head(msgs)
           alreadyExists ==
             \/ \E i \in DOMAIN custs : custs[i].phone = phone
             \/ \E i \in DOMAIN pending : pending[i] = phone
       IN  Enqueue(IF alreadyExists THEN pending ELSE Append(pending, phone),
                   custs, Tail(msgs))

\* the awaited fetchIncomingMessages of polls[k] settles with result, and
\* pollIncomingMessages runs to its end
PollComplete(k, result) ==
  /\ k \in DOMAIN polls
  /\ polls' = [j \in 1..(Len(polls) - 1) |->
                 IF j < k THEN polls[j] ELSE polls[j + 1]]
  /\ pendingRealMessages' =
       IF result.success /\ Len(result.messages) > 0
       THEN Enqueue(pendingRealMessages, customers, result.messages)
       ELSE pendingRealMessages
  /\ justStarted' = FALSE
  /\ UNCHANGED botVars
  /\ UNCHANGED <<now, lastTime, state, score, customersServed, customersLost,
                 comboCount, maxCombo, difficulty2, lastSpawnTime,
                 lastApiPoll, comboTimer, customers, customerSlots, bottles,
                 selectedBottleIndex, demoMode, customerIdCounter, serves,
                 ticks, hist>>

\* a bottle reset that leaves the cooldown running
ResetBottleKeepCooldown(b) ==
  [b EXCEPT !.state = IF b.locked THEN "empty" ELSE "idle",
            !.fillLevel = IF b.locked THEN 0 ELSE BOTTLE_COOLDOWN]

\* a bottle reset that fills every bottle, locked or not
ResetBottleAllFull(b) ==
  [b EXCEPT !.cooldownEnd = 0,
            !.state = "idle",
            !.fillLevel = BOTTLE_COOLDOWN]

\* the bottle reset of startGame
ResetBottle(b) ==
  [b EXCEPT !.cooldownEnd = 0,
            !.state = IF b.locked THEN "empty" ELSE "idle",
            !.fillLevel = IF b.locked THEN 0 ELSE BOTTLE_COOLDOWN]

\* Game.startGame: start(), restart(), and the start button of the menu
\* and game-over screens.  The suspended calls of the round that ends stay
\* suspended; they are marked as belonging to an earlier round.
startGame ==
  /\ state' = "playing"
  /\ score' = 0
  /\ customersServed' = 0
  /\ customersLost' = 0
  /\ comboCount' = 0
  /\ maxCombo' = 0
  /\ difficulty2' = 2
  /\ customers' = <<>>
  /\ customerSlots' = [i \in SlotIndices |-> NULL]
  /\ selectedBottleIndex' = NULL
  /\ lastSpawnTime' = 0
  /\ lastApiPoll' = 0
  /\ pendingRealMessages' = <<>>
  /\ bottles' = [i \in BottleIndices |-> ResetBottle(bottles[i])]
  /\ polls' = [j \in DOMAIN polls |-> [polls[j] EXCEPT !.stale = TRUE]]
  /\ serves' = [j \in DOMAIN serves |-> [serves[j] EXCEPT !.stale = TRUE]]
  /\ justStarted' = TRUE
  /\ UNCHANGED botVars
  /\ UNCHANGED <<now, lastTime, comboTimer, demoMode, customerIdCounter, ticks, hist>>

\* Game.pause
pause ==
  /\ state' = IF state = "playing" THEN "paused" ELSE state
  /\ justStarted' = (justStarted /\ state' = state)
  /\ UNCHANGED botVars
  /\ UNCHANGED <<now, lastTime, score, customersServed, customersLost, comboCount,
                 maxCombo, difficulty2, lastSpawnTime, lastApiPoll,
                 comboTimer, customers, customerSlots, bottles,
                 selectedBottleIndex, demoMode, pendingRealMessages,
                 customerIdCounter, polls, serves, ticks, hist>>

\* Game.resume
resume ==
  /\ state' = IF state = "paused" THEN "playing" ELSE state
  /\ justStarted' = (justStarted /\ state' = state)
  /\ UNCHANGED botVars
  /\ UNCHANGED <<now, lastTime, score, customersServed, customersLost, comboCount,
                 maxCombo, difficulty2, lastSpawnTime, lastApiPoll,
                 comboTimer, customers, customerSlots, bottles,
                 selectedBottleIndex, demoMode, pendingRealMessages,
                 customerIdCounter, polls, serves, ticks, hist>>

\* App.fetchSession (and init's testConnection): demoMode follows the
\* session status the message source reports
fetchSession(isLive) ==
  /\ demoMode' = ~isLive
  /\ justStarted' = (justStarted /\ demoMode' = demoMode)
  /\ UNCHANGED botVars
  /\ UNCHANGED <<now, lastTime, state, score, customersServed, customersLost,
                 comboCount, maxCombo, difficulty2, lastSpawnTime,
                 lastApiPoll, comboTimer, customers, customerSlots, bottles,
                 selectedBottleIndex, pendingRealMessages, customerIdCounter,
                 polls, serves, ticks, hist>>

\* The readings of the explorations.  A frame's callback runs at its
\* timestamp, a click and the end of a delivery follow the last reading at
\* once, and the clock stands still while each of them runs (SpecShort
\* has a clock that runs on)
FrameReadings(d) == {Readings(lastTime + d, 0, 0, FrameReads)}
ClickReadings == {Readings(now, 0, 0, ClickReads)}
ResumeReadings == {Readings(now, 0, 0, ResumeReads)}

\* Every operation of the engine, with frames from Deltas
Next ==
  \/ \E d \in Deltas, ty \in SpawnTypes :
       \E ts \in FrameReadings(d) : ticks < MaxTicks /\ Tick(d, ty, ts)
  \/ \E i \in ClickedBottles : ClickBottle(i)
  \/ \E k \in 1..MAX_CUSTOMERS, ts \in ClickReadings : ClickCustomer(k, ts)
  \/ \E k \in 1..MAX_CUSTOMERS, o \in DeliveryOutcomes, ts \in ResumeReadings :
       DeliveryComplete(k, o, ts)
  \/ \E k \in 1..MaxTicks, r \in PollResults : PollComplete(k, r)
  \/ startGame
  \/ pause
  \/ resume
  \/ \E isLive \in BOOLEAN : fetchSession(isLive)

Spec == Init /\ [][Next]_vars

\* Game.handleClick on the start button of the menu and game-over screens
ClickStart ==
  /\ state \in {"menu", "gameover"}
  /\ startGame

\* Whole rounds in demo mode: long frames (a spawn interval; a tab that was
\* in the background), one template, rounds started from the start button
MaxRoundTicks == 7
RoundDeltas == {6000, 72000}

NextRound ==
  \/ \E d \in RoundDeltas, ty \in SpawnTypes :
       \E ts \in FrameReadings(d) :
         ticks < MaxRoundTicks /\ state # "menu" /\ Tick(d, ty, ts)
  \/ ClickBottle(0)
  \/ \E k \in 1..MAX_CUSTOMERS, ts \in ClickReadings : ClickCustomer(k, ts)
  \/ ClickStart

SpecRound == Init /\ [][NextRound]_vars

\* Whole rounds with a live session: the session is live before the first
\* round, one chat writes, and at most MaxPollsInFlight polls are
\* unanswered when a frame begins
LiveDeltas == {72000}
MaxPollsInFlight == 1
LivePollResults ==
  {[success |-> TRUE, messages |-> << <<"wa", 1>> >>],
   [success |-> FALSE, messages |-> <<>>]}

NextLive ==
  \/ \E d \in LiveDeltas, ty \in SpawnTypes :
       \E ts \in FrameReadings(d) :
         /\ ticks < MaxRoundTicks
         /\ state # "menu"
         /\ Len(polls) <= MaxPollsInFlight
         /\ Tick(d, ty, ts)
  \/ ClickBottle(0)
  \/ \E k \in 1..MAX_CUSTOMERS, ts \in ClickReadings : ClickCustomer(k, ts)
  \/ \E k \in 1..MAX_CUSTOMERS, o \in DeliveryOutcomes, ts \in ResumeReadings :
       DeliveryComplete(k, o, ts)
  \/ \E k \in 1..(MaxPollsInFlight + 1), r \in LivePollResults :
       PollComplete(k, r)
  \/ ClickStart
  \/ state = "menu" /\ fetchSession(TRUE)

SpecLive == Init /\ [][NextLive]_vars

\* Long rounds with a live session in which nobody is served: the bar
\* fills while chats queue up, and customers leave only by storming off
MaxQueueTicks == 10

NextQueue ==
  \/ \E d \in RoundDeltas, ty \in SpawnTypes :
       \E ts \in FrameReadings(d) :
         /\ ticks < MaxQueueTicks
         /\ state # "menu"
         /\ Len(polls) <= MaxPollsInFlight
         /\ Tick(d, ty, ts)
  \/ \E k \in 1..(MaxPollsInFlight + 1), r \in PollResults :
       PollComplete(k, r)
  \/ ClickStart
  \/ state = "menu" /\ fetchSession(TRUE)

SpecQueue == Init /\ [][NextQueue]_vars

\* Long demo rounds of slow frames, with time for one serve in each, in
\* which the player serves with the first bottle
MaxServeTicks == 16
ServeDeltas == {72000}

NextServe ==
  \/ \E d \in ServeDeltas, ty \in SpawnTypes :
       \E ts \in FrameReadings(d) :
         ticks < MaxServeTicks /\ state # "menu" /\ Tick(d, ty, ts)
  \/ ClickBottle(0)
  \/ \E k \in 1..MAX_CUSTOMERS, ts \in ClickReadings : ClickCustomer(k, ts)
  \/ ClickStart

SpecServe == Init /\ [][NextServe]_vars

\* Demo rounds in which long frames wear the patience down and short
\* frames leave a combo window open; the player uses two bottles and the
\* pause key
MaxComboTicks == 4
ComboDeltas == {1500, 39000}
ComboBottles == {0, 1}

NextCombo ==
  \/ \E d \in ComboDeltas, ty \in SpawnTypes :
       \E ts \in FrameReadings(d) :
         ticks < MaxComboTicks /\ state # "menu" /\ Tick(d, ty, ts)
  \/ \E i \in ComboBottles : ClickBottle(i)
  \/ \E k \in 1..MAX_CUSTOMERS, ts \in ClickReadings : ClickCustomer(k, ts)
  \/ ClickStart
  \/ pause
  \/ resume

SpecCombo == Init /\ [][NextCombo]_vars

\* The bot in one busy chat: text and voice messages arrive faster than
\* the welcome message is sent and the model replies, so that up to
\* MaxHandlers handlers are suspended
MaxHandlers == 2
ChatPhones == {"972501111111"}
ChatContents == {"triggerAndQuestion", "question"}

NextBotChat ==
  \/ \E ph \in ChatPhones, v \in BOOLEAN, c \in ChatContents :
       /\ Len(welcomes) + Len(handlers) < MaxHandlers
       /\ Webhook(ph, v, c, Readings(botNow, 0, 0, WebhookReads))
  \/ \E k \in 1..MaxHandlers :
       WelcomeSent(k, Readings(botNow, 0, 0, WelcomeReads))
  \/ \E k \in 1..MaxHandlers, ok \in BOOLEAN : GeminiReply(k, ok)

SpecBotChat == Init /\ [][NextBotChat]_vars

\* The clock of the bot reads 0, 0.5, 10 and 10.5 minutes, one millisecond
\* less than an hour, 60 and 60.5 minutes: the advances of BotSchedule, in
\* turn
MaxBotTicks == 6
BotSchedule == <<30000, 570000, 30000, 2969999, 1, 30000>>

\* the next advance of the clock, or none
BotStep ==
  IF botTicks < MaxBotTicks
  THEN BotSchedule[(botTicks % Len(BotSchedule)) + 1]
  ELSE 0

\* what a handler that takes up to n readings can read: the clock stands
\* still, or it advances after the first k readings
BotReadings(n) == {Readings(botNow, BotStep, k, n) : k \in 1..n}

Elapse ==
  /\ botTicks < MaxBotTicks
  /\ BotAdvance(BotStep)

\* One chat over an hour: text messages that arrive while no handler
\* waits for the model (one may still be sending the welcome message), to
\* sessions of fewer than MaxTimedMessages answered messages, the admin
\* endpoints and the cleanup timer
MaxTimedMessages == 1

NextBot ==
  \/ \E ph \in ChatPhones, c \in Contents \ {"untranscribed"},
        ts \in BotReadings(WebhookReads) :
       /\ handlers = <<>>
       /\ activeSessions[ph] # NoSession =>
            activeSessions[ph].messageCount < MaxTimedMessages
       /\ Webhook(ph, FALSE, c, ts)
  \/ \E k \in DOMAIN welcomes, ts \in BotReadings(WelcomeReads) :
       WelcomeSent(k, ts)
  \/ \E k \in DOMAIN handlers, ok \in BOOLEAN : GeminiReply(k, ok)
  \/ \E ph \in ChatPhones, ts \in BotReadings(StatusReads) :
       GetSessionStatus(ph, ts)
  \/ \E ph \in ChatPhones, ts \in BotReadings(1) : DeleteSession(ph, ts)
  \/ \E ts \in BotReadings(CleanupReads) : Cleanup(ts)
  \/ Elapse

SpecBot == Init /\ [][NextBot]_vars

\* Two chats over an hour that start sessions and end them, by keyword or
\* by the cleanup timer
RateContents == {"trigger", "end"}

NextBotRate ==
  \/ \E ph \in BotPhones, c \in RateContents,
        ts \in BotReadings(WebhookReads) :
       /\ handlers = <<>>
       /\ activeSessions[ph] # NoSession =>
            activeSessions[ph].messageCount < MaxTimedMessages
       /\ Webhook(ph, FALSE, c, ts)
  \/ \E k \in DOMAIN welcomes, ts \in BotReadings(WelcomeReads) :
       WelcomeSent(k, ts)
  \/ GeminiReply(1, TRUE)
  \/ \E ts \in BotReadings(CleanupReads) : Cleanup(ts)
  \/ Elapse

SpecBotRate == Init /\ [][NextBotRate]_vars

\* Demo rounds in which the animation frames never stop: requestAnimationFrame
\* calls gameLoop again after every frame, whatever the player does, and a
\* paused game is resumed.  The player's pauses are short (no frame falls
\* into one) and the frames are those of Deltas.
MaxRecoverTicks == 6
RecoverBottles == {0}

Frame ==
  \E d \in Deltas, ty \in SpawnTypes :
    \E ts \in FrameReadings(d) :
      ticks < MaxRecoverTicks /\ state = "playing" /\ Tick(d, ty, ts)

NextRecover ==
  \/ Frame
  \/ \E i \in RecoverBottles : ClickBottle(i)
  \/ \E k \in 1..MAX_CUSTOMERS, ts \in ClickReadings : ClickCustomer(k, ts)
  \/ ClickStart
  \/ pause
  \/ resume

\* what a Frame step does to the frame counter; no other step of
\* NextRecover changes ticks, so that a step is a Frame step exactly when
\* it is a FrameCounted step that changes ticks
FrameCounted ==
  ticks < MaxRecoverTicks /\ state = "playing" /\ ticks' = ticks + 1

SpecRecover ==
  Init /\ [][NextRecover]_vars /\ SF_ticks(FrameCounted) /\ WF_vars(resume)

\* Demo rounds with frames shorter than the cooldown and than a customer's
\* walk to the bar: a customer is met while it walks in, a bottle while it
\* refills; the frames go on while the game is paused.  The clock runs on:
\* it may move by one of ShortSkews while a frame's callback runs, and a
\* click may come one of ShortLags after the last reading, as long as it
\* is no later after the frame than ShortLate
MaxShortTicks == 6
ShortDeltas == {1000, 5000}
ShortSkews == {0, 2}
ShortLags == {0, 1}
ShortLate == 0..3

ShortFrameReadings(d) ==
  {Readings(lastTime + d, skew, 1, FrameReads) : skew \in ShortSkews}

ShortClickReadings ==
  {Readings(now + lag, 0, 0, ClickReads) :
     lag \in {g \in ShortLags : now + g - lastTime \in ShortLate}}

NextShort ==
  \/ \E d \in ShortDeltas, ty \in SpawnTypes :
       \E ts \in ShortFrameReadings(d) :
         ticks < MaxShortTicks /\ state # "menu" /\ Tick(d, ty, ts)
  \/ ClickBottle(0)
  \/ \E k \in 1..MAX_CUSTOMERS :
       \E ts \in ShortClickReadings : ClickCustomer(k, ts)
  \/ ClickStart
  \/ pause
  \/ resume

SpecShort == Init /\ [][NextShort]_vars

\* Demo rounds of an attentive player with two bottles: until EagerServes
\* customers are served no frame begins while a customer at the bar is
\* still to be served; after that the customers may be left waiting
MaxEagerTicks == 12
EagerServes == 9
EagerDeltas == {6000}
EagerBottles == {0, 1}

\* a customer a click would still serve
Unserved(custs) ==
  {k \in DOMAIN custs : ~custs[k].isServed /\ ~custs[k].isLeaving}

NextEager ==
  \/ \E d \in EagerDeltas, ty \in SpawnTypes :
       \E ts \in FrameReadings(d) :
         /\ ticks < MaxEagerTicks
         /\ state # "menu"
         /\ customersServed < EagerServes => Unserved(customers) = {}
         /\ Tick(d, ty, ts)
  \/ \E i \in EagerBottles : ClickBottle(i)
  \/ \E k \in 1..MAX_CUSTOMERS, ts \in ClickReadings : ClickCustomer(k, ts)
  \/ ClickStart

SpecEager == Init /\ [][NextEager]_vars

\* Demo rounds that are left alone, with frames of half a spawn interval
\* and of a whole one: a frame comes before the interval has passed, the
\* bar fills up while the first customers still wait, and frames go on
\* after a spawn was refused
MaxCadenceTicks == 10
CadenceDeltas == {3000, 6000}

NextCadence ==
  \/ \E d \in CadenceDeltas, ty \in SpawnTypes :
       \E ts \in FrameReadings(d) :
         ticks < MaxCadenceTicks /\ state # "menu" /\ Tick(d, ty, ts)
  \/ ClickStart
  \/ pause
  \/ resume

SpecCadence == Init /\ [][NextCadence]_vars

\* A demo round that is started again from the controls at any moment,
\* also while it is paused or over, followed up to the return of that
\* start() or restart().  The player is as attentive as that of SpecEager
\* until RestartServes customers are served, and then leaves the others
\* waiting through the long frames of SpecServe
MaxRestartTicks == 22
RestartServes == 12

\* the round has been started again
Restarted == justStarted /\ ticks > 0

RestartFrame(d, ty, ts) ==
  /\ ticks < MaxRestartTicks
  /\ state # "menu"
  /\ ~Restarted
  /\ Tick(d, ty, ts)

NextRestart ==
  \/ \E d \in EagerDeltas, ty \in SpawnTypes :
       \E ts \in FrameReadings(d) :
         /\ customersServed < RestartServes
         /\ Unserved(customers) = {}
         /\ RestartFrame(d, ty, ts)
  \/ \E d \in ServeDeltas, ty \in SpawnTypes :
       \E ts \in FrameReadings(d) :
         customersServed >= RestartServes /\ RestartFrame(d, ty, ts)
  \/ ~Restarted /\ ClickBottle(0)
  \/ \E k \in 1..MAX_CUSTOMERS, ts \in ClickReadings :
       ~Restarted /\ ClickCustomer(k, ts)
  \/ ~Restarted /\ startGame
  \/ ~Restarted /\ pause
  \/ ~Restarted /\ resume

SpecRestart == Init /\ [][NextRestart]_vars

\* Demo rounds in which the frames never stop (as in SpecRecover), with
\* the long frames of a throttled tab and customers of the most and of
\* the least patient type: left alone, the one runs out of patience in
\* three frames at the bar and the other in two
MaxLeaveTicks == 7
LeaveDeltas == {36000}
LeaveTypes == {2, 5}

LeaveFrame ==
  \E d \in LeaveDeltas, ty \in LeaveTypes :
    \E ts \in FrameReadings(d) :
      ticks < MaxLeaveTicks /\ state = "playing" /\ Tick(d, ty, ts)

NextLeave ==
  \/ LeaveFrame
  \/ ClickBottle(0)
  \/ \E k \in 1..MAX_CUSTOMERS, ts \in ClickReadings : ClickCustomer(k, ts)
  \/ ClickStart
  \/ pause
  \/ resume

\* what a LeaveFrame step does to the frame counter (see FrameCounted)
LeaveFrameCounted ==
  ticks < MaxLeaveTicks /\ state = "playing" /\ ticks' = ticks + 1

SpecLeave ==
  Init /\ [][NextLeave]_vars /\ SF_ticks(LeaveFrameCounted)
       /\ WF_vars(resume)

---------------------------------------------------------------------------
(* Properties *)

\* C1 -- Serve idempotence / no double scoring: serve() on a customer that
\* is already served or leaving returns false and leaves every field of the
\* customer as it was; whatever the clicks, frames and deliveries in
\* flight, no customer is scored more than once, and customersServed counts
\* no more than the customers scored.
ServeIdempotent ==
  /\ \A i \in DOMAIN customers :
       (customers[i].isServed \/ customers[i].isLeaving) =>
         serve(customers[i]) = [ok |-> FALSE, customer |-> customers[i]]
  /\ \A id \in DOMAIN hist : hist[id].scored <= 1
  /\ customersServed <= Cardinality({id \in DOMAIN hist : hist[id].scored = 1})

\* a customer who was served and scored still stands at the bar, in reach
\* of further clicks, while the game is on
ServedStillClickable ==
  /\ state = "playing"
  /\ selectedBottleIndex # NULL
  /\ \E i \in DOMAIN customers :
       /\ customers[i].isServed
       /\ ~customers[i].isLeaving
       /\ hist[customers[i].id].scored = 1

\* C2 -- Capacity invariant: in every reachable state the active customers
\* number at most MAX_CUSTOMERS, and so do the occupied bar slots; every
\* active customer holds a slot of its own.
CapacityInvariant ==
  /\ Len(customers) <= MAX_CUSTOMERS
  /\ Cardinality({i \in SlotIndices : customerSlots[i] # NULL}) <= MAX_CUSTOMERS
  /\ \A i \in DOMAIN customers :
       /\ customers[i].slotIndex \in SlotIndices
       /\ customerSlots[customers[i].slotIndex] = customers[i].id
  /\ \A i, j \in DOMAIN customers :
       customers[i].slotIndex = customers[j].slotIndex => i = j

\* the bar is full and the frame that has just run was due a spawn: the
\* spawn timer restarted, yet nobody came in
FullBarRefusedSpawn ==
  /\ state = "playing"
  /\ Len(customers) = MAX_CUSTOMERS
  /\ \A i \in SlotIndices : customerSlots[i] # NULL
  /\ lastSpawnTime = 0
  /\ \A i \in DOMAIN customers :
       DLess(customers[i].patience, FromInt(customers[i].maxPatience))

\* C3 -- Dedup invariant: in every reachable state each phone is the key of
\* at most one entry among the active customers and the pending queue taken
\* together, also when one poll result names a phone twice and when several
\* poll results arrive, in any order, between two frames.
DedupInvariant ==
  \A p \in Phones \cup {customers[i].phone : i \in DOMAIN customers} :
    Cardinality({i \in DOMAIN customers : customers[i].phone = p})
      + Cardinality({i \in DOMAIN pendingRealMessages :
                       pendingRealMessages[i] = p}) <= 1

\* one chat stands at the bar as a customer, the other waits in the queue,
\* and a poll is still unanswered
ActiveAndQueuedChats ==
  /\ \E i \in DOMAIN customers :
       customers[i].isReal /\ customers[i].phone = <<"wa", 1>>
  /\ pendingRealMessages = << <<"wa", 2>> >>
  /\ polls # <<>>

\* the readings a call on bottle b can begin with: the last reading, the
\* time of a coming frame, the millisecond before the cooldown ends
CallTimes(b) ==
  {now + d : d \in {0} \cup Deltas}
    \cup {t \in {b.cooldownEnd - 1} : t >= now}

\* by how much a second reading of the clock in one call is later
Skews == {0, 2}

\* C4 -- Cooldown bound: for every bottle, whatever the clock reads, now
\* or later, getCooldownProgress() lies in [0, 1] (here in
\* [0, BOTTLE_COOLDOWN], the progress being counted in 1/BOTTLE_COOLDOWN);
\* use() on a bottle whose progress is below 1 returns false and leaves the
\* bottle as it was; use() at or after cooldownEnd on an unlocked bottle
\* succeeds and starts a cooldown of BOTTLE_COOLDOWN.  A bottle used at
\* t = 0 is at half progress at t = 1500 and rejects a use there, and
\* accepts one at t = 3100.
CooldownBound ==
  /\ \A i \in BottleIndices :
       \A t1 \in CallTimes(bottles[i]), skew \in Skews :
         LET b == bottles[i]
             t2 == t1 + skew
             progress == getCooldownProgress(b, t1, t2)
         IN  /\ 0 <= progress
             /\ progress <= BOTTLE_COOLDOWN
             /\ getCooldownProgress(b, t1, t1) < BOTTLE_COOLDOWN =>
                  use(b, t1, t2) = [ok |-> FALSE, bottle |-> b]
             /\ (~b.locked /\ t1 >= b.cooldownEnd) =>
                  /\ use(b, t1, t2).ok
                  /\ use(b, t1, t2).bottle.cooldownEnd = t2 + 3000
                  /\ getCooldownProgress(use(b, t1, t2).bottle, t2, t2) = 0
  /\ LET used == use(NewBottle(0), 0, 0)
     IN  /\ used.ok
         /\ 2 * getCooldownProgress(used.bottle, 1500, 1500) = BOTTLE_COOLDOWN
         /\ use(used.bottle, 1500, 1500)
              = [ok |-> FALSE, bottle |-> used.bottle]
         /\ use(used.bottle, 3100, 3100).ok

\* C5 -- Game-over trigger: the frame in which customersLost reaches
\* MAX_LOST ends with the round in gameover; no step ends with
\* customersLost >= MAX_LOST and the round still playing (or paused).
GameOverSameTick ==
  customersLost >= MAX_LOST => state = "gameover"

\* the round has just been lost: the fifth customer stormed off
FifthCustomerLost ==
  /\ customersLost = MAX_LOST
  /\ state = "gameover"
  /\ \E i \in DOMAIN customers :
       customers[i].state = "storming_off" /\ customers[i].countedAsLost

\* C6 -- Frozen after game over: while the round stays in gameover no
\* customer, no bottle, and none of score, customersServed, customersLost
\* and comboCount changes, whatever frames, clicks and completions of
\* deliveries that were in flight when the round ended take place.
FrozenAfterGameOver ==
  [][(state = "gameover" /\ state' = "gameover") =>
       UNCHANGED <<customers, bottles, score, customersServed,
                   customersLost, comboCount>>]_vars

\* C7 -- Scoring: every step in which a customer is scored adds exactly
\* BASE_SCORE + floor(patience percent * PATIENCE_BONUS_MULTIPLIER)
\* + COMBO_BONUS * (comboCount before) to score, adds 1 to customersServed
\* and to comboCount, leaves maxCombo = max(maxCombo, comboCount) and
\* comboTimer = COMBO_TIMEOUT; three serves at 80% patience in one combo
\* window score 180, 205 and 230 and end with comboCount = maxCombo = 3.
ScoringRule ==
  [][/\ \A id \in DOMAIN hist :
          hist'[id].scored # hist[id].scored =>
            LET served == [patience |-> hist'[id].patienceAtServe,
                           maxPatience |-> hist'[id].maxPatience]
            IN  /\ score' = score + 100 + FloorPercent(served) * 1
                                + 25 * comboCount
                /\ customersServed' = customersServed + 1
                /\ comboCount' = comboCount + 1
                /\ maxCombo' = Max(maxCombo, comboCount')
                /\ comboTimer' = 3000
     /\ LET at80 == [id |-> 1, bottle |-> 0, patience |-> FromInt(48),
                     maxPatience |-> 60, stale |-> FALSE]
            g0 == [GameView EXCEPT !.score = 0, !.customersServed = 0,
                                   !.comboCount = 0, !.maxCombo = 0,
                                   !.hist = <<NoHist>>]
            g1 == FinishServe(g0, at80, now, now)
            g2 == FinishServe(g1, at80, now, now)
            g3 == FinishServe(g2, at80, now, now)
        IN  /\ FloorPercent(at80) = 80
            /\ g1.score = 180 /\ g1.comboCount = 1
            /\ g2.score = 180 + 205 /\ g2.comboCount = 2
            /\ g3.score = 180 + 205 + 230 /\ g3.comboCount = 3
            /\ g3.maxCombo = 3 /\ g3.customersServed = 3
            /\ g3.comboTimer = 3000]_vars

\* two customers have been served inside one combo window: the second
\* serve carried a combo bonus
SecondServeInCombo ==
  /\ comboCount = 2
  /\ maxCombo = 2
  /\ customersServed = 2
  /\ score >= 2 * BASE_SCORE + COMBO_BONUS

\* C8 -- Fresh round: right after start()/restart() returns, whatever the
\* round was before, the state is playing; score, customersServed,
\* customersLost, comboCount and maxCombo are 0; difficulty is exactly 1;
\* the customer list, every slot and the pending queue are empty; no bottle
\* is selected; every unlocked bottle is idle, full and not on cooldown and
\* every locked bottle is empty.
FreshRound ==
  justStarted =>
    /\ state = "playing"
    /\ score = 0
    /\ customersServed = 0
    /\ customersLost = 0
    /\ comboCount = 0
    /\ maxCombo = 0
    /\ difficulty2 = 2
    /\ customers = <<>>
    /\ \A i \in SlotIndices : customerSlots[i] = NULL
    /\ pendingRealMessages = <<>>
    /\ selectedBottleIndex = NULL
    /\ \A i \in BottleIndices :
         IF BOTTLE_TYPES[i].locked
         THEN bottles[i].state = "empty" /\ bottles[i].fillLevel = 0
         ELSE /\ bottles[i].state = "idle"
              /\ bottles[i].fillLevel = BOTTLE_COOLDOWN
              /\ ~isOnCooldown(bottles[i], now)
              /\ getCooldownProgress(bottles[i], now, now) = BOTTLE_COOLDOWN

\* a round has just been started again in which RestartServes customers
\* had been served, the difficulty had gone up to 1.5 and a customer had
\* been lost after that
RestartedAfterServing ==
  /\ justStarted
  /\ ticks > 0
  /\ \E id \in DOMAIN hist :
       /\ hist[id].lost = 1
       /\ hist[id].served >= RestartServes
       /\ hist[id].diff2 = 3

\* C9 -- Pause and resume: pause() changes the round state only when it is
\* playing (to paused) and resume() only when it is paused (to playing);
\* otherwise each changes nothing, and neither ever changes anything but
\* the round state.  A frame that runs while the round is paused changes no
\* customer, bottle, counter, spawn timer, poll timer, combo timer or queue.
\* So pause() followed by resume() is back in playing with all of these as
\* they were.
PauseResumeFrame ==
  [][/\ pause =>
          /\ state' = (IF state = "playing" THEN "paused" ELSE state)
          /\ UNCHANGED <<customers, customerSlots, bottles, score,
                         customersServed, customersLost, comboCount,
                         maxCombo, difficulty2, lastSpawnTime, lastApiPoll,
                         comboTimer, pendingRealMessages,
                         selectedBottleIndex, polls, serves>>
     /\ resume =>
          /\ state' = (IF state = "paused" THEN "playing" ELSE state)
          /\ UNCHANGED <<customers, customerSlots, bottles, score,
                         customersServed, customersLost, comboCount,
                         maxCombo, difficulty2, lastSpawnTime, lastApiPoll,
                         comboTimer, pendingRealMessages,
                         selectedBottleIndex, polls, serves>>
     /\ (state # "paused" /\ state' = "paused") => state = "playing"
     /\ (state = "paused" /\ ticks' = ticks + 1) =>
          /\ state' = "paused"
          /\ UNCHANGED <<customers, customerSlots, bottles, score,
                         customersServed, customersLost, comboCount,
                         maxCombo, difficulty2, lastSpawnTime, lastApiPoll,
                         comboTimer, pendingRealMessages,
                         selectedBottleIndex, polls, serves>>]_vars

\* the round is paused and frames have run since the pause: a bottle that
\* was poured is still pouring although its whole cooldown has gone by,
\* and the customers stand where they stood
PausedThroughFrames ==
  /\ state = "paused"
  /\ customers # <<>>
  /\ \E i \in BottleIndices :
       /\ bottles[i].state = "pouring"
       /\ bottles[i].cooldownEnd > 0
       /\ now >= bottles[i].cooldownEnd

\* C10 -- Patience monotonicity: a customer who is idle, impatient or angry
\* never has more patience after a step than before it; every customer's
\* patience stays within [0, maxPatience]; and one more updateWaiting of
\* any waiting customer, with any positive delta and any difficulty from 1
\* to 3, leaves a patience that is no higher, not below 0 and not above
\* maxPatience.
PatienceMonotone ==
  [][/\ \A i \in DOMAIN customers, j \in DOMAIN customers' :
          (/\ customers'[j].id = customers[i].id
           /\ customers[i].state \in WaitingStates) =>
            ~DLess(customers[i].patience, customers'[j].patience)
     /\ \A j \in DOMAIN customers' :
          /\ ~DLess(customers'[j].patience, Zero)
          /\ ~DLess(FromInt(customers'[j].maxPatience),
                    customers'[j].patience)
          /\ customers'[j].state \in WaitingStates =>
               \A d \in RoundDeltas \cup Deltas, diff2 \in 2..6 :
                 \A after \in {updateWaiting(customers'[j], d, diff2)} :
                   /\ ~DLess(customers'[j].patience, after.patience)
                   /\ ~DLess(after.patience, Zero)
                   /\ ~DLess(FromInt(after.maxPatience),
                             after.patience)]_vars

\* a customer has run out of patience in one long frame (the decay was cut
\* off at 0) and storms off, while a newcomer waits at the bar
PatienceRanOut ==
  /\ \E i \in DOMAIN customers :
       /\ customers[i].patience = Zero
       /\ customers[i].state = "storming_off"
  /\ \E j \in DOMAIN customers : customers[j].state \in WaitingStates

\* frame lengths for a single updateWaiting: those of the rounds, and one
\* that takes a fresh customer from idle straight to angry
MoodDeltas == {1500, 6000, 32000, 72000}

\* C11 -- Mood monotonicity: no step takes a customer from angry to
\* impatient or idle, or from impatient to idle; and one more updateWaiting
\* of any waiting customer, whatever the frame length and the difficulty,
\* leaves the customer in the same or a later mood of idle, impatient,
\* angry (impatient may be skipped), or storming off.
MoodMonotone ==
  [][/\ \A i \in DOMAIN customers, j \in DOMAIN customers' :
          customers'[j].id = customers[i].id =>
            /\ customers[i].state = "angry" =>
                 customers'[j].state \notin {"idle", "impatient"}
            /\ customers[i].state = "impatient" =>
                 customers'[j].state # "idle"
     /\ \A j \in DOMAIN customers' :
          customers'[j].state \in WaitingStates =>
            \A d \in MoodDeltas, diff2 \in 2..6 :
              LET before == customers'[j].state
                  after == updateWaiting(customers'[j], d, diff2).state
              IN  /\ after \in WaitingStates \cup {"storming_off"}
                  /\ before = "angry" => after \in {"angry", "storming_off"}
                  /\ before = "impatient" => after # "idle"]_vars

\* one customer has gone through impatient to angry while a later one is
\* impatient and the newest is still idle
ThreeMoodsAtTheBar ==
  /\ \E i \in DOMAIN customers :
       customers[i].state = "angry" /\ DLess(Zero, customers[i].patience)
  /\ \E i \in DOMAIN customers : customers[i].state = "impatient"
  /\ \E i \in DOMAIN customers : customers[i].state = "idle"

\* C12 -- Spawn source priority: in every step in which a customer is
\* made (the spawn found a free slot), if the pending queue was non-empty
\* the new customer is real, carries the phone of the queue's head, and
\* the queue loses exactly its head; if the queue was empty the new
\* customer is synthetic and the queue stays as it was.
SpawnSourcePriority ==
  [][customerIdCounter' # customerIdCounter =>
       /\ customerIdCounter' = customerIdCounter + 1
       /\ customers' # <<>>
       /\ LET new == customers'[Len(customers')]
          IN  /\ new.id = customerIdCounter'
              /\ new.state = "walking_in" \/ new.x = new.targetX
              /\ IF pendingRealMessages # <<>>
                 THEN /\ new.isReal
                      /\ new.phone = Head(pendingRealMessages)
                      /\ pendingRealMessages' = Tail(pendingRealMessages)
                 ELSE /\ ~new.isReal
                      /\ new.phone = <<"demo", new.id>>
                      /\ pendingRealMessages' = pendingRealMessages]_vars

\* chat 2 was queued before chat 1 and both have come in, in that order,
\* behind a synthetic customer
QueueSpawnedInOrder ==
  /\ Len(customers) = 3
  /\ ~customers[1].isReal
  /\ customers[2].isReal /\ customers[2].phone = <<"wa", 2>>
  /\ customers[3].isReal /\ customers[3].phone = <<"wa", 1>>
  /\ pendingRealMessages = <<>>

\* C13 -- Full bar: a spawn attempt made while every slot is occupied
\* makes no customer and leaves the queue as it was (the frame it is part
\* of may still move customers and free slots); spawnCustomer on a full
\* bar changes nothing at all, whatever is queued.  The queue is deferred,
\* not dropped: it only ever grows at its end, loses its head to a spawn,
\* or is emptied by a new round; and a spawn attempt that finds a free
\* slot and a non-empty queue brings in the head of the queue.
FullBarDefersQueue ==
  [][/\ (/\ ticks' = ticks + 1
         /\ state = "playing"
         /\ lastSpawnTime' = 0
         /\ \A i \in SlotIndices : customerSlots[i] # NULL) =>
          /\ customerIdCounter' = customerIdCounter
          /\ pendingRealMessages' = pendingRealMessages
          /\ \A j \in DOMAIN customers' :
               \E i \in DOMAIN customers : customers[i].id = customers'[j].id
          /\ \A i \in SlotIndices :
               customerSlots'[i] \in {customerSlots[i], NULL}
     /\ (\A i \in SlotIndices : customerSlots'[i] # NULL) =>
          \A q \in {pendingRealMessages'} \cup SeqsUpTo(Phones, 2),
             ty \in DOMAIN CUSTOMER_TYPES :
            spawnCustomer(customers', customerSlots', q,
                          customerIdCounter', ty)
              = [customers |-> customers',
                 customerSlots |-> customerSlots',
                 pendingRealMessages |-> q,
                 customerIdCounter |-> customerIdCounter']
     /\ \/ pendingRealMessages' = pendingRealMessages
        \/ /\ Len(pendingRealMessages') > Len(pendingRealMessages)
           /\ SubSeq(pendingRealMessages', 1, Len(pendingRealMessages))
                = pendingRealMessages
        \/ /\ pendingRealMessages # <<>>
           /\ pendingRealMessages' = Tail(pendingRealMessages)
           /\ customerIdCounter' = customerIdCounter + 1
        \/ justStarted' /\ pendingRealMessages' = <<>>
     /\ (/\ ticks' = ticks + 1
         /\ state = "playing"
         /\ lastSpawnTime' = 0
         /\ pendingRealMessages # <<>>
         /\ \E i \in SlotIndices : customerSlots[i] = NULL) =>
          /\ customerIdCounter' = customerIdCounter + 1
          /\ customers'[Len(customers')].isReal
          /\ customers'[Len(customers')].phone = Head(pendingRealMessages)
          /\ pendingRealMessages' = Tail(pendingRealMessages)]_vars

\* two chats are queued, the bar is full, and the frame that has just run
\* was due a spawn that did not take place
QueueWaitsAtFullBar ==
  /\ state = "playing"
  /\ Len(pendingRealMessages) = 2
  /\ Len(customers) = MAX_CUSTOMERS
  /\ \A i \in SlotIndices : customerSlots[i] # NULL
  /\ lastSpawnTime = 0
  /\ \A i \in DOMAIN customers :
       DLess(customers[i].patience, FromInt(customers[i].maxPatience))

\* C14 -- Slot ownership: a customer keeps the slotIndex it was given for
\* as long as it is in the game and the slot names that customer alone;
\* a slot is given up only in the frame in which its customer becomes
\* removable and is dropped from the list in that same frame (or when a
\* new round discards every customer); an occupied slot always belongs to
\* a customer of the list, so no slot is released twice, and no customer
\* that is still in the list is removable.
SlotOwnership ==
  [][/\ \A i \in DOMAIN customers, j \in DOMAIN customers' :
          customers'[j].id = customers[i].id =>
            /\ customers'[j].slotIndex = customers[i].slotIndex
            /\ customerSlots'[customers[i].slotIndex] = customers[i].id
     /\ \A i \in DOMAIN customers :
          (\A j \in DOMAIN customers' : customers'[j].id # customers[i].id) =>
            /\ customerSlots'[customers[i].slotIndex] = NULL
            /\ \/ justStarted'
               \/ /\ ticks' = ticks + 1
                  /\ state = "playing"
                  /\ ~customers[i].isRemovable
                  /\ CustomerUpdate(customers[i], lastTime' - lastTime,
                                    difficulty2).isRemovable
     /\ \A j \in DOMAIN customers' :
          /\ ~customers'[j].isRemovable
          /\ customerSlots'[customers'[j].slotIndex] = customers'[j].id
          /\ \A k \in DOMAIN customers' :
               customers'[k].slotIndex = customers'[j].slotIndex => k = j
     /\ \A s \in SlotIndices :
          customerSlots'[s] # NULL =>
            \E j \in DOMAIN customers' :
              customers'[j].id = customerSlots'[s]
                /\ customers'[j].slotIndex = s]_vars

\* a slot that was given up has been taken by a later customer, who now
\* stands to the left of an earlier one
SlotTakenAgain ==
  \E i, j \in DOMAIN customers :
    /\ customers[i].id > customers[j].id
    /\ customers[i].slotIndex < customers[j].slotIndex
    /\ customers[j].isLeaving

\* C15 -- Invalid serve: serveCustomer called with no bottle selected,
\* with a locked bottle, with a bottle on cooldown, or for a customer that
\* is already served or leaving, changes no customer, no bottle, neither
\* score, customersServed, comboCount, maxCombo nor the combo timer, and
\* starts no delivery, in demo mode and in live mode alike.
InvalidServeIsNoOp ==
  \A i \in DOMAIN customers, sel \in {NULL} \cup BottleIndices,
     demo \in BOOLEAN :
    (\/ sel = NULL
     \/ sel # NULL /\ BOTTLE_TYPES[sel].locked
     \/ sel # NULL /\ isOnCooldown(bottles[sel], now)
     \/ customers[i].isServed
     \/ customers[i].isLeaving) =>
      serveCustomer(GameView, i, now, now, now, sel, demo) = GameView

\* the game is on, the selected bottle is on cooldown, one customer waits
\* unserved and another has been served: a click on either is refused
RefusedServesAtHand ==
  /\ state = "playing"
  /\ selectedBottleIndex # NULL
  /\ isOnCooldown(bottles[selectedBottleIndex], now)
  /\ \E i \in DOMAIN customers :
       customers[i].state \in WaitingStates /\ ~customers[i].isServed
  /\ \E i \in DOMAIN customers : customers[i].isServed

\* C16 -- Delivery outcome: when the delivery of a real customer's serve
\* settles, the customers, the bottles, score, customersServed, comboCount,
\* maxCombo and the combo timer that serveCustomer leaves are the same for
\* a sent message, a success = false result and a rejection; in each case
\* the serve is scored once, the bottle used is on cooldown and the
\* customer stays as the serve left it.
DeliveryOutcomeIrrelevant ==
  \A k \in DOMAIN serves :
    LET g == [GameView EXCEPT !.serves = WithoutServe(k)]
        sv == serves[k]
        sent == resumeServe(g, sv, "sent", now, now)
    IN  /\ \A o \in DeliveryOutcomes : resumeServe(g, sv, o, now, now) = sent
        /\ sent.customers = customers
        /\ sent.score = score + Points(sv, comboCount)
        /\ sent.customersServed = customersServed + 1
        /\ sent.comboCount = comboCount + 1
        /\ sent.maxCombo = Max(maxCombo, comboCount + 1)
        /\ sent.comboTimer = COMBO_TIMEOUT
        /\ isOnCooldown(sent.bottles[sv.bottle], now)
        /\ \A b \in BottleIndices \ {sv.bottle} : sent.bottles[b] = bottles[b]
        /\ sent.serves = WithoutServe(k)

\* one real customer's delivery has settled and its serve is scored while
\* the delivery of another real customer is still in flight
DeliverySettledAndPending ==
  /\ ~demoMode
  /\ Len(serves) > 0
  /\ \E id \in DOMAIN hist : hist[id].sent = 1 /\ hist[id].scored = 1

\* C17 -- Delivery guard: the delivery call is made only in a step that
\* serves a real customer, not served and not leaving before, with a
\* selected, unlocked bottle off cooldown, while demoMode is not set, and
\* it is that customer's first; every delivery put in flight is such a
\* call, and a new customer starts with none.  So no synthetic customer
\* and no serve in demo mode triggers a delivery, and no customer is sent
\* two responses.
DeliveryOnlyOnce ==
  [][/\ \A id \in DOMAIN hist :
          hist'[id].sent # hist[id].sent =>
            /\ hist[id].sent = 0 /\ hist'[id].sent = 1
            /\ ~demoMode
            /\ selectedBottleIndex # NULL
            /\ ~bottles[selectedBottleIndex].locked
            /\ ~isOnCooldown(bottles[selectedBottleIndex], now)
            /\ \E i \in DOMAIN customers :
                 /\ customers[i].id = id
                 /\ customers[i].isReal
                 /\ ~customers[i].isServed /\ ~customers[i].isLeaving
                 /\ customers'[i].id = id /\ customers'[i].isServed
            /\ \E k \in DOMAIN serves' : serves'[k].id = id
     /\ \A k \in DOMAIN serves' :
          k > Len(serves) =>
            /\ serves'[k].id \in DOMAIN hist
            /\ hist'[serves'[k].id].sent = hist[serves'[k].id].sent + 1
     /\ \A id \in DOMAIN hist' \ DOMAIN hist : hist'[id].sent = 0
     /\ \A i \in DOMAIN customers :
          (~customers[i].isReal \/ demoMode) =>
            hist'[customers[i].id].sent = hist[customers[i].id].sent]_vars

\* a real customer was served in live mode and its message sent, a real
\* customer was served in demo mode without one, and so was a synthetic one
ServedWithAndWithoutDelivery ==
  /\ \E id \in DOMAIN hist : hist[id].sent = 1
  /\ \E i \in DOMAIN customers :
       /\ customers[i].isReal /\ customers[i].isServed
       /\ hist[customers[i].id].sent = 0
  /\ \E i \in DOMAIN customers :
       /\ ~customers[i].isReal /\ customers[i].isServed
       /\ hist[customers[i].id].sent = 0

\* C18 -- No enqueue in demo mode: in no step taken while demoMode is set
\* does pendingRealMessages gain a record, the completion of a poll that
\* was started before demoMode was set included.
NoEnqueueInDemoMode ==
  [][demoMode => Len(pendingRealMessages') <= Len(pendingRealMessages)]_vars

\* C19 -- Synthetic customers in demo mode: every customer that a spawn
\* creates in a frame run while demoMode is set has isReal = false.
DemoModeSpawnsSynthetic ==
  [][(demoMode /\ customerIdCounter' # customerIdCounter) =>
       ~customers'[Len(customers')].isReal]_vars

\* the polls in flight that were started in an earlier round
StalePolls(p) == {k \in DOMAIN p : p[k].stale}

\* C20 -- Stale poll ignored: when a poll that was in flight at a
\* start()/restart() settles in the new round, none of its records is
\* added to pendingRealMessages.
StalePollIgnored ==
  [][Cardinality(StalePolls(polls')) < Cardinality(StalePolls(polls)) =>
       pendingRealMessages' = pendingRealMessages]_vars

\* the serve counts the difficulty rule is tabulated for
MaxServedChecked == 60

\* C21 -- Difficulty: difficulty stays within [1, 3] and no step lowers it
\* except startGame, which sets it to 1; customersServed falls only in
\* that step too, and for every serve count up to MaxServedChecked the
\* rule of update() yields a difficulty between the current one and 3.
DifficultyMonotone ==
  [][/\ difficulty2 \in 2..6 /\ difficulty2' \in 2..6
     /\ difficulty2 <= Min(6, 2 + customersServed \div 10)
     /\ (difficulty2' < difficulty2 \/ customersServed' < customersServed) =>
          /\ justStarted'
          /\ difficulty2' = 2
          /\ customersServed' = 0
     /\ justStarted' => difficulty2' = 2
     /\ \A s \in customersServed..MaxServedChecked, d \in 2..6 :
          d <= Min(6, 2 + s \div 10) =>
            /\ NextDifficulty2(s, d) >= d
            /\ NextDifficulty2(s, d) <= Min(6, 2 + s \div 10)]_vars

\* a round is started again after ten customers were served in the round
\* before, which had raised the difficulty to 1.5
RestartAfterTenServed ==
  /\ justStarted
  /\ difficulty2 = 2
  /\ customersLost = 0
  /\ Cardinality({id \in DOMAIN hist : hist[id].scored = 1}) >= 10

\* C22 -- Storm-off breaks the combo: in every frame in which a customer
\* enters storming_off, comboCount is 0 when the frame ends, whatever the
\* combo timer holds, the customer is counted as lost in that frame, and
\* maxCombo and score keep their values.
StormOffResetsCombo ==
  [][(\E i \in DOMAIN customers' :
        /\ customers'[i].state = "storming_off"
        /\ \A j \in DOMAIN customers :
             customers[j].id = customers'[i].id =>
               customers[j].state # "storming_off") =>
       /\ ticks' = ticks + 1
       /\ comboCount' = 0
       /\ maxCombo' = maxCombo
       /\ score' = score
       /\ customersLost' > customersLost]_vars

\* a customer has just stormed off inside an open combo window: the combo
\* is gone, the timer has not run out, the best combo is kept
StormedOffInsideCombo ==
  /\ state = "playing"
  /\ comboCount = 0
  /\ comboTimer > 0
  /\ maxCombo >= 1
  /\ score > 0
  /\ customersLost = 1
  /\ \E i \in DOMAIN customers :
       customers[i].state = "storming_off" /\ customers[i].countedAsLost

\* C23 -- Combo expiry: a frame in playing takes its delta off the combo
\* timer exactly when comboCount > 0; if the timer is then 0 or less,
\* comboCount becomes 0 and score, customersServed and maxCombo keep their
\* values; if it is still positive and nobody storms off, the combo is
\* kept.  Frames outside playing touch neither.  A serve sets the timer to
\* COMBO_TIMEOUT and adds to the combo it finds.
ComboExpiry ==
  [][/\ (ticks' = ticks + 1 /\ state = "playing") =>
          LET d == lastTime' - lastTime
          IN  /\ comboCount > 0 => comboTimer' = comboTimer - d
              /\ comboCount = 0 => comboTimer' = comboTimer
              /\ (comboCount > 0 /\ comboTimer - d <= 0) =>
                   /\ comboCount' = 0
                   /\ score' = score
                   /\ customersServed' = customersServed
                   /\ maxCombo' = maxCombo
              /\ (comboCount > 0 /\ comboTimer - d > 0
                    /\ customersLost' = customersLost) =>
                   comboCount' = comboCount
     /\ (ticks' = ticks + 1 /\ state # "playing") =>
          UNCHANGED <<comboTimer, comboCount>>
     /\ customersServed' > customersServed =>
          /\ comboTimer' = COMBO_TIMEOUT
          /\ comboCount' = comboCount + (customersServed' - customersServed)
          /\ maxCombo' = Max(maxCombo, comboCount')]_vars

\* a chain of two serves, made with two bottles inside one combo window,
\* has run out by the timer: nobody was lost, the best combo is 2
ChainOfTwoExpired ==
  /\ state = "playing"
  /\ comboCount = 0
  /\ comboTimer <= 0
  /\ maxCombo = 2
  /\ customersServed = 2
  /\ customersLost = 0

\* C24 -- Session message limit: the messageCount of an active session
\* and the message_count of every row of chat_sessions never exceed
\* MAX_MESSAGES_PER_SESSION, a voice message counting as 2, whatever
\* messages arrive and however their handlers overlap.
MessageCountBound ==
  /\ \A ph \in BotPhones :
       activeSessions[ph] # NoSession =>
         activeSessions[ph].messageCount <= MAX_MESSAGES_PER_SESSION
  /\ \A i \in DOMAIN chatDb :
       chatDb[i].message_count <= MAX_MESSAGES_PER_SESSION

\* the rows of chat_sessions that belong to phone
RowsOf(phone) == SelectSeq(chatDb, LAMBDA r : r.phone = phone)

\* C25 -- Session rate limit: two sessions of one phone are started at
\* least RATE_LIMIT_MS apart; whatever canStartSession(phone) reads on the
\* clock, it answers allowed = false exactly when a session of that phone,
\* active or ended, was started less than RATE_LIMIT_MS before its first
\* reading, then with 1 <= waitMinutes <= 60, and its answer is the one it
\* gives on the rows of that phone alone.
SessionRateLimit ==
  /\ \A i, j \in DOMAIN chatDb :
       (i < j /\ chatDb[i].phone = chatDb[j].phone) =>
         chatDb[j].started_at - chatDb[i].started_at >= RATE_LIMIT_MS
  /\ \A ph \in BotPhones, ts \in BotReadings(2) :
       LET answer == canStartSession(chatDb, ph, ts[1], ts[2])
           recent == \E i \in DOMAIN chatDb :
                       /\ chatDb[i].phone = ph
                       /\ ts[1] - chatDb[i].started_at < RATE_LIMIT_MS
       IN  /\ answer.allowed = ~recent
           /\ ~answer.allowed =>
                answer.waitMinutes >= 1 /\ answer.waitMinutes <= 60
           /\ answer = canStartSession(RowsOf(ph), ph, ts[1], ts[2])

\* the manager with the session of phone ended by timeout at the reading t
TimedOut(phone, t) == endSession(Manager, phone, "timeout", t)

\* C26 -- Session timeout, whatever the calls read on the clock: a session
\* is reported (by getSession, getSessionStatus) only if the reading that
\* decides it is no later than SESSION_TIMEOUT_MS after its start, and a
\* message is allowed only if the reading of timeRemaining is earlier than
\* that; getSession, canSendMessage, getSessionStatus and
\* cleanupExpiredSessions end a session that is older at their first
\* reading with reason timeout, ended_at being the next reading, and take
\* it out of activeSessions, and canSendMessage does so for a session that
\* has reached the timeout at its second reading; they leave a session that
\* is younger at every reading and under the message limit as it is and
\* report it; and endSession and recordMessage do nothing for a phone
\* without a session.
SessionTimeout ==
  \A ph \in BotPhones, ts \in BotReadings(StatusReads) :
    LET session == activeSessions[ph]
        start == session.startTime
        got == getSession(Manager, ph, ts)
        canSend == canSendMessage(Manager, ph, ts)
        status == getSessionStatus(Manager, ph, ts)
        cleaned == cleanupExpiredSessions(Manager, ts)
    IN  /\ (got.session # NoSession \/ status.status.active) =>
             session # NoSession /\ ts[1] - start <= SESSION_TIMEOUT_MS
        /\ canSend.result.allowed =>
             session # NoSession /\ ts[2] - start < SESSION_TIMEOUT_MS
        /\ (session # NoSession /\ ts[1] - start > SESSION_TIMEOUT_MS) =>
             /\ got.session = NoSession /\ got.m = TimedOut(ph, ts[2])
             /\ ~canSend.result.allowed /\ canSend.m = TimedOut(ph, ts[2])
             /\ ~status.status.active /\ status.m = TimedOut(ph, ts[2])
             /\ cleaned.active[ph] = NoSession
             /\ cleaned.db[session.sessionId].end_reason = "timeout"
             /\ cleaned.db[session.sessionId].ended_at \in
                  {ts[i] : i \in 2..Len(ts)}
             /\ TimedOut(ph, ts[2]).active[ph] = NoSession
             /\ TimedOut(ph, ts[2]).db[session.sessionId].end_reason
                  = "timeout"
             /\ TimedOut(ph, ts[2]).db[session.sessionId].ended_at = ts[2]
        /\ (session # NoSession /\ ts[1] - start <= SESSION_TIMEOUT_MS
             /\ ts[2] - start >= SESSION_TIMEOUT_MS
             /\ session.messageCount < MAX_MESSAGES_PER_SESSION) =>
             /\ ~canSend.result.allowed
             /\ canSend.result.reason = "timeout"
             /\ canSend.m = TimedOut(ph, ts[3])
        /\ (session # NoSession
             /\ ts[Len(ts)] - start < SESSION_TIMEOUT_MS
             /\ session.messageCount < MAX_MESSAGES_PER_SESSION) =>
             /\ got.session = session /\ got.m = Manager
             /\ canSend.result.allowed /\ canSend.m = Manager
             /\ status.status.active /\ status.m = Manager
             /\ status.status.timeRemainingSeconds >= 1
             /\ cleaned.active[ph] = session
        /\ session = NoSession =>
             /\ \A r \in {"manual", "timeout", "admin", "user_ended"} :
                  endSession(Manager, ph, r, ts[1]) = Manager
             /\ \A c \in {1, 2} : recordMessage(Manager, ph, c) = Manager

\* a session that had answered a message was found expired, half a minute
\* or more past its ten minutes, and ended with reason timeout
ExpiredSessionEnded ==
  \E i \in DOMAIN chatDb :
    /\ chatDb[i].end_reason = "timeout"
    /\ chatDb[i].ended_at - chatDb[i].started_at > SESSION_TIMEOUT_MS
    /\ chatDb[i].message_count = 1
    /\ activeSessions[chatDb[i].phone] = NoSession

\* the bottle of the serve that scores customer id: the one its suspended
\* call holds, or else the selected one
BottleOfServe(id) ==
  IF \E k \in DOMAIN serves : serves[k].id = id
  THEN serves[CHOOSE k \in DOMAIN serves : serves[k].id = id].bottle
  ELSE selectedBottleIndex

\* C27 -- Bottle exclusivity: every scored serve finds its bottle off
\* cooldown and puts it on cooldown for BOTTLE_COOLDOWN ms from that
\* moment, so that two scored serves with one bottle are at least
\* BOTTLE_COOLDOWN ms apart.
BottleExclusive ==
  [][\A id \in DOMAIN hist :
       hist'[id].scored # hist[id].scored =>
         /\ ~isOnCooldown(bottles[BottleOfServe(id)], now')
         /\ bottles'[BottleOfServe(id)].cooldownEnd
              = now' + BOTTLE_COOLDOWN]_vars

\* the deliveries in flight that were started in an earlier round
StaleServes(sv) == {k \in DOMAIN sv : sv[k].stale}

\* C28 -- No credit across rounds: when a delivery that was in flight at a
\* start()/restart() settles in the new round, score, customersServed,
\* comboCount, maxCombo and the bottles stay as they are.
StaleServeNotCredited ==
  [][Cardinality(StaleServes(serves')) < Cardinality(StaleServes(serves)) =>
       UNCHANGED <<score, customersServed, comboCount, maxCombo,
                   bottles>>]_vars

\* C29 -- A bottle is usable only in state idle: every use() that returns
\* true (the bottle goes to pouring with a new cooldownEnd) is made on a
\* bottle whose state is idle, and in every state use() on a bottle that is
\* pouring, empty or refilling would return false.
BottleUsedOnlyWhenIdle ==
  [][\A i \in BottleIndices :
       /\ (bottles'[i].state = "pouring"
             /\ bottles'[i].cooldownEnd # bottles[i].cooldownEnd)
            => bottles[i].state = "idle"
       /\ bottles[i].state \in {"pouring", "empty", "refilling"}
            => ~use(bottles[i], now, now).ok]_vars

\* update() takes a used bottle back to idle in three calls: pouring to
\* empty, empty to refilling, refilling to idle
RecoveryFrames == 3

\* bottle i is idle and full
Recovered(i) ==
  bottles[i].state = "idle" /\ bottles[i].fillLevel = BOTTLE_COOLDOWN

\* C30 -- Bottle recovery: a bottle of the player's that is not idle (it was
\* used) while at least RecoveryFrames frames of the round are still to
\* come is idle with fillLevel 1 again at some later moment, whatever the
\* frame deltas and the pause/resume calls are; it does not stay in
\* pouring, empty or refilling for the rest of the run.
BottleRecovery ==
  \A i \in RecoverBottles :
    [](/\ ~bottles[i].locked
       /\ bottles[i].state # "idle"
       /\ ticks + RecoveryFrames <= MaxRecoverTicks
       => <>Recovered(i))

\* C31 -- A bottle moves from empty to refilling only in a tick at which
\* its cooldown deadline has passed (at the last reading the tick takes of
\* the clock, and so at each one before it); while the cooldown is still
\* pending an empty bottle stays empty.
RefillAfterDeadline ==
  [][\A i \in BottleIndices :
       /\ (bottles[i].state = "empty" /\ bottles'[i].state = "refilling")
            => ~isOnCooldown(bottles[i], now')
       /\ (bottles[i].state = "empty" /\ isOnCooldown(bottles[i], now'))
            => bottles'[i].state = "empty"]_vars

\* C32 -- Bottle cooldown advances only with played time: every step taken
\* while the round is paused, a frame or the resume() itself, leaves the
\* cooldown of every bottle where it was (getCooldownProgress() returns
\* what it returned before), so that a bottle with r ms left at pause()
\* has r ms left right after resume().
CooldownFrozenWhilePaused ==
  [][(state = "paused" /\ state' \in {"paused", "playing"}) =>
       \A i \in BottleIndices :
         getCooldownProgress(bottles'[i], now', now')
           = getCooldownProgress(bottles[i], now, now)]_vars

\* C33 -- A customer enters happy only from idle, impatient or angry, not
\* yet served and not leaving: a customer that is walking in is never
\* moved to happy; and a happy customer stays happy or goes on to
\* walking_out, never to storming_off.
HappyOnlyFromWaiting ==
  [][\A k \in DOMAIN customers, j \in DOMAIN customers' :
       customers'[j].id = customers[k].id =>
         /\ (customers[k].state # "happy" /\ customers'[j].state = "happy")
              => /\ customers[k].state \in WaitingStates
                 /\ ~customers[k].isServed
                 /\ ~customers[k].isLeaving
         /\ customers[k].state = "happy"
              => customers'[j].state \in {"happy", "walking_out"}]_vars

\* C34 -- Difficulty follows the serve milestones: at the end of every
\* tick in playing the difficulty is at least min(3, 1 + k/2) for every
\* milestone 10k that customersServed has reached, however the serves
\* were interleaved with the ticks.
DifficultyFollowsMilestones ==
  [][(state = "playing" /\ ticks' = ticks + 1) =>
       difficulty2' >= Min(2 * 3, 2 + customersServed \div 10)]_vars

\* the waiting customers whose patience a frame of deltaTime ms takes to 0
RunningOut(custs, deltaTime, diff2) ==
  {k \in DOMAIN custs :
     /\ custs[k].state \in WaitingStates
     /\ Decay(custs[k].patience, deltaTime, diff2) = Zero}

\* C35 -- Loss accounting: in a tick in playing every waiting customer
\* whose patience reaches 0 is storming off at the end of that tick and
\* is counted as lost in it, customersLost grows by exactly the number of
\* these customers, and no other step raises it; no customer is counted
\* twice, a customer that was served is never counted, and stormOff() on a
\* customer that is leaving changes nothing.
LossAccounting ==
  [][/\ \A k \in DOMAIN customers :
          customers[k].isLeaving => stormOff(customers[k]) = customers[k]
     /\ \A id \in DOMAIN hist' :
          /\ hist'[id].lost <= 1
          /\ (hist'[id].scored > 0 \/ hist'[id].sent > 0)
               => hist'[id].lost = 0
     /\ IF state = "playing" /\ ticks' = ticks + 1
        THEN LET out == RunningOut(customers, lastTime' - lastTime, difficulty2)
             IN  /\ customersLost' = customersLost + Cardinality(out)
                 /\ \A k \in out :
                      /\ hist'[customers[k].id].lost = 1
                      /\ \E j \in DOMAIN customers' :
                           /\ customers'[j].id = customers[k].id
                           /\ customers'[j].state = "storming_off"
                           /\ customers'[j].countedAsLost
        ELSE customersLost' = customersLost \/ justStarted']_vars

\* two customers ran out of patience in one tick and have not moved yet,
\* while a customer that was served is on its way out
TwoLostInOneTick ==
  /\ \E k1, k2 \in DOMAIN customers :
       /\ k1 # k2
       /\ \A k \in {k1, k2} :
            /\ customers[k].state = "storming_off"
            /\ customers[k].x = customers[k].targetX
            /\ hist[customers[k].id].lost = 1
  /\ \E id \in DOMAIN hist : hist[id].scored = 1
  /\ customersLost >= 2

\* C36 -- customersLost never exceeds MAX_LOST: it is between 0 and
\* MAX_LOST in every reachable state, also after a tick in which several
\* customers ran out of patience.
LostWithinBound == customersLost \in 0..MAX_LOST

\* the frames of LeaveDeltas that a customer of the given type can wait at
\* the bar before its patience is at 0: the patience falls by
\* PATIENCE_DECAY_RATE for each second of a frame, or faster
WaitFrames(typeIndex) ==
  CeilDiv(CUSTOMER_TYPES[typeIndex].patience * 2000,
          PATIENCE_DECAY_RATE_x2
            * (CHOOSE d \in LeaveDeltas : \A e \in LeaveDeltas : d <= e))

\* the frames of LeaveDeltas after which a customer of the given type is
\* gone: it walks in during the frame that spawns it, is served after
\* WaitFrames - 1 frames at the latest, is happy for three frames and
\* walks off the screen in the next; left alone it storms off in frame
\* WaitFrames and is off the screen in the next
LeaveFrames(typeIndex) == WaitFrames(typeIndex) + 3

\* customer id is in the customer list or holds a slot
Present(id) ==
  \/ \E k \in DOMAIN customers : customers[k].id = id
  \/ \E i \in SlotIndices : customerSlots[i] = id

\* how far a customer is from walking in: the states in the order in
\* which update() and serve() pass through them
Phase(c) ==
  CASE c.state = "walking_in" -> 4
    [] c.state \in WaitingStates -> 3
    [] c.state = "happy" -> 2
    [] c.state \in {"walking_out", "storming_off"} -> 1

\* customer c1 is c further on its way: in a later state, or in the same
\* one and nearer its end (the seat, patience 0, the third animation
\* frame, the edge of the screen)
Ahead(c, c1) ==
  \/ Phase(c1) < Phase(c)
  \/ /\ c1.state = c.state \/ {c.state, c1.state} \subseteq WaitingStates
     /\ CASE c.state = "walking_in" -> DLess(c1.x, c.x)
          [] c.state \in WaitingStates -> DLess(c1.patience, c.patience)
          [] c.state = "happy" ->
               \/ c1.frame > c.frame
               \/ c1.frame = c.frame /\ c1.frameTimer > c.frameTimer
          [] c.state = "walking_out" -> DLess(c1.x, c.x)
          [] c.state = "storming_off" -> DLess(c.x, c1.x)

\* a step leaves no customer where it is when it is a frame of a round
\* that is played, and takes none back otherwise
CustomersAdvance ==
  \A k \in DOMAIN customers, j \in DOMAIN customers' :
    customers'[j].id = customers[k].id =>
      IF state = "playing" /\ ticks' # ticks
      THEN Ahead(customers[k], customers'[j])
      ELSE customers'[j] = customers[k] \/ Ahead(customers[k], customers'[j])

\* C37 -- Every customer eventually leaves: a customer that is in the bar
\* while the frames that its type can take are still to come, served or
\* not, is later out of the customer list with its slot free again, unless
\* the round ends in game over first; and every frame of a round that is
\* played takes every customer further on its way, so that none stays for
\* any number of frames.
EveryCustomerLeaves ==
  /\ \A id \in 1..MaxLeaveTicks :
       []((\E k \in DOMAIN customers :
             /\ customers[k].id = id
             /\ ticks + LeaveFrames(customers[k].typeIndex) <= MaxLeaveTicks)
          => <>(~Present(id) \/ state = "gameover"))
  /\ [][CustomersAdvance]_vars

\* a customer of the most patient type that was served and one that
\* stormed off have both left a round that is still being played, and
\* their slots are free
ServedAndLostHaveLeft ==
  /\ state = "playing"
  /\ \E a, b \in DOMAIN hist :
       /\ hist[a].scored = 1 /\ ~Present(a)
       /\ \A ty \in LeaveTypes :
            LeaveFrames(ty) <= LeaveFrames(hist[a].typeIndex)
       /\ hist[b].lost = 1 /\ ~Present(b)

\* C38 -- Slots and customers correspond one to one: slot i holds customer
\* c exactly when c is in the customer list with slotIndex i; every
\* customer in the list has a slot of its own, and every occupied slot
\* holds a customer that is in the list.
SlotsMatchCustomers ==
  /\ \A k \in DOMAIN customers :
       /\ customers[k].slotIndex \in SlotIndices
       /\ \A i \in SlotIndices :
            (customerSlots[i] = customers[k].id)
              <=> (customers[k].slotIndex = i)
  /\ \A k1, k2 \in DOMAIN customers :
       k1 # k2 => /\ customers[k1].slotIndex # customers[k2].slotIndex
                  /\ customers[k1].id # customers[k2].id
  /\ \A i \in SlotIndices :
       customerSlots[i] # NULL =>
         \E k \in DOMAIN customers : customers[k].id = customerSlots[i]

\* the first slot was freed and given to a later customer while the
\* customer of the second slot is still in the bar
SlotGivenAgain ==
  /\ customerSlots[0] # NULL
  /\ customerSlots[1] # NULL
  /\ customerSlots[0] > customerSlots[1]

\* C39 -- Spawn cadence: a tick in playing attempts a spawn exactly when
\* the time accumulated since the previous attempt, this frame included,
\* has reached max(MIN_SPAWN_INTERVAL, BASE_SPAWN_INTERVAL / difficulty);
\* an attempt sets the timer to 0 whether or not a slot was free and
\* brings in one customer if one was; otherwise the timer keeps the
\* accumulated time and nobody comes in.  No other step brings a customer
\* in or moves the timer, except startGame, which sets it to 0.
SpawnCadence ==
  [][LET t1 == lastSpawnTime + (lastTime' - lastTime)
         due == /\ t1 >= MIN_SPAWN_INTERVAL
                /\ t1 * difficulty2 >= 2 * BASE_SPAWN_INTERVAL
         free == \E i \in SlotIndices : customerSlots[i] = NULL
         old == {customers[k].id : k \in DOMAIN customers}
         new == {customers'[j].id : j \in DOMAIN customers'} \ old
     IN  IF state = "playing" /\ ticks' = ticks + 1
         THEN IF due
              THEN /\ lastSpawnTime' = 0
                   /\ new = IF free THEN {customerIdCounter + 1} ELSE {}
                   /\ customerIdCounter' =
                        customerIdCounter + Cardinality(new)
              ELSE /\ lastSpawnTime' = t1
                   /\ new = {}
                   /\ customerIdCounter' = customerIdCounter
         ELSE /\ new = {}
              /\ customerIdCounter' = customerIdCounter
              /\ \/ lastSpawnTime' = lastSpawnTime
                 \/ justStarted' /\ lastSpawnTime' = 0]_vars

\* a spawn was refused at the full bar and a frame has passed since
\* without another attempt: the timer is under way again, nobody has come
\* in after the customer that took the last slot, and that customer has
\* waited at the bar for more than a spawn interval
SpawnRefusedAtFullBar ==
  /\ state = "playing"
  /\ Len(customers) = MAX_CUSTOMERS
  /\ \A i \in SlotIndices : customerSlots[i] # NULL
  /\ customerIdCounter = MAX_CUSTOMERS
  /\ lastSpawnTime > 0
  /\ ~SpawnDue(lastSpawnTime, difficulty2)
  /\ \E k \in DOMAIN customers :
       /\ customers[k].id = customerIdCounter
       /\ DLess(customers[k].patience,
                Decay(FromInt(customers[k].maxPatience),
                      BASE_SPAWN_INTERVAL, difficulty2))

\* C40 -- A locked bottle never becomes usable: before and after every
\* step, start() and restart() included, a locked bottle is empty with
\* fillLevel 0, use() on it returns false and it is not the selected
\* bottle; and no serve is scored with a locked bottle.
LockedNeverUsable ==
  [][/\ \A i \in BottleIndices :
          bottles[i].locked =>
            /\ bottles[i].state = "empty" /\ bottles'[i].state = "empty"
            /\ bottles[i].fillLevel = 0 /\ bottles'[i].fillLevel = 0
            /\ bottles'[i].locked
            /\ ~use(bottles[i], now, now).ok /\ ~use(bottles'[i], now', now').ok
            /\ selectedBottleIndex # i /\ selectedBottleIndex' # i
     /\ \A id \in DOMAIN hist :
          hist'[id].scored # hist[id].scored
            => ~bottles[BottleOfServe(id)].locked]_vars

\* in a round that was started again after a serve the player has a
\* bottle in hand, while a locked bottle stands on the shelf
BottleInHandAfterRestart ==
  /\ state = "playing"
  /\ customersServed = 0
  /\ \E id \in DOMAIN hist : hist[id].scored > 0
  /\ selectedBottleIndex # NULL
  /\ \E i \in BottleIndices : bottles[i].locked

=============================================================================
